---- MODULE Spec2Model ----
(***************************************************************************)
(* A model of the command engine of mdb, the Mercury internal debugger     *)
(* (trace/mercury_trace_internal.c): the session queue, the line reader,   *)
(* the tokenizer, alias expansion, the dispatch table, the movement        *)
(* command handlers, the pager and the interactive command loop.           *)
(*                                                                         *)
(* Characters are one-character strings, C strings are sequences of        *)
(* characters.  A mutable line buffer is a sequence of characters that     *)
(* ends with the terminator NUL; C index i is index i + 1 here.            *)
(***************************************************************************)
EXTENDS Integers, Sequences, FiniteSets, TLC

VARIABLES
    pc,                 \* position of the engine (see the actions below)
    heap,               \* the allocated MR_Line nodes: id -> [contents, next]
    MR_line_head,       \* head of the session queue (a node id or NULL)
    MR_line_tail,       \* tail of the session queue (a node id or NULL)
    aliases,            \* the alias table: alias name -> words
    cmd,                \* the MR_Trace_Cmd_Info record of the host
    event_info,         \* the event of the current notification
    jumpaddr,           \* the resume address handed back to the host
    MR_default_print_level,
    MR_scroll_control,
    MR_scroll_limit,
    MR_scroll_next,
    MR_echo_commands,
    MR_trace_internal_initialized,
    globals,            \* the breakpoint table and the parameters that
                        \* the commands context, goal_paths and scope set
    mdb_in,             \* the debugger's input stream: [eof, nread, lines]
    gc,                 \* locals of MR_trace_get_command while it runs
    res,                \* the MR_Next of the last command (or "none")
    hist,               \* what the last step did (reads, dispatch, messages)
    tk,                 \* a line given to the tokenizer and to
                        \* MR_trace_debug_cmd on its own, and what they gave
    host                \* the host runtime: the events it can report and
                        \* how many it reports, and the environment
                        \* it starts the debugger in, [events, max, configs]

vars == <<pc, heap, MR_line_head, MR_line_tail, aliases, cmd, event_info,
          jumpaddr, MR_default_print_level, MR_scroll_control,
          MR_scroll_limit, MR_scroll_next, MR_echo_commands,
          MR_trace_internal_initialized, globals, mdb_in, gc, res, hist, tk,
          host>>

-----------------------------------------------------------------------------
(* Characters and C strings *)

NULL == "NULL"
NUL == "NUL"
SINGLE_QUOTE_CHAR == "'"
DOUBLE_QUOTE_CHAR == "\""
ESCAPE_CHAR == "\\"
SPACE == " "
SEMI == ";"

Digits == <<"0", "1", "2", "3", "4", "5", "6", "7", "8", "9">>

MR_isspace(c) == c = SPACE

MR_isdigit(c) == \E i \in 1..10 : Digits[i] = c

DigitVal(c) == (CHOOSE i \in 1..10 : Digits[i] = c) - 1

\* the C string that starts at index off of the buffer buf
RECURSIVE CStr(_, _)
CStr(buf, off) ==
    IF off > Len(buf) \/ buf[off] = NUL THEN <<>>
    ELSE <<buf[off]>> \o CStr(buf, off + 1)

\* the buffer holding the C string s
Buf(s) == s \o <<NUL>>

MR_NUMBER_LEN == 80

RECURSIVE NatVal(_, _)
NatVal(word, acc) ==
    IF word = <<>> THEN acc
    ELSE NatVal(Tail(word), acc * 10 + DigitVal(Head(word)))

MR_trace_is_natural_number(word) ==
    /\ word # <<>>
    /\ \A i \in 1..Len(word) : MR_isdigit(word[i])

\* the value MR_trace_is_natural_number stores through its second argument
NaturalValue(word) == NatVal(word, 0)

-----------------------------------------------------------------------------
(* The tokenizer *)

\* BreakOffFinish with the terminator stored at char_pos, as if
\* no character had been dropped
BreakOffNoLag(line, char_pos, lag, single_quoted, double_quoted, another) ==
    IF single_quoted
    THEN [problem |-> "unmatched single quote", line |-> line,
          new_char_pos |-> char_pos]
    ELSE IF double_quoted
    THEN [problem |-> "unmatched double quote", line |-> line,
          new_char_pos |-> char_pos]
    ELSE [problem |-> NULL,
          line |-> [line EXCEPT ![char_pos] = NUL],
          new_char_pos |-> IF another THEN char_pos + 1 ELSE char_pos]

\* the code after the loop of MR_trace_break_off_one_word
BreakOffFinish(line, char_pos, lag, single_quoted, double_quoted, another) ==
    IF single_quoted
    THEN [problem |-> "unmatched single quote", line |-> line,
          new_char_pos |-> char_pos]
    ELSE IF double_quoted
    THEN [problem |-> "unmatched double quote", line |-> line,
          new_char_pos |-> char_pos]
    ELSE [problem |-> NULL,
          line |-> [line EXCEPT ![char_pos - lag] = NUL],
          new_char_pos |-> IF another THEN char_pos + 1 ELSE char_pos]

\* a word scanner that drops double quotes the way it drops single quotes
RECURSIVE BreakOffStripDouble(_, _, _, _, _)
BreakOffStripDouble(line, char_pos, lag, single_quoted, double_quoted) ==
    IF line[char_pos] = NUL
    THEN BreakOffFinish(line, char_pos, lag, single_quoted, double_quoted,
                        FALSE)
    ELSE IF ~single_quoted /\ ~double_quoted /\ MR_isspace(line[char_pos])
    THEN BreakOffFinish(line, char_pos, lag, single_quoted, double_quoted,
                        TRUE)
    ELSE IF ~double_quoted /\ line[char_pos] = SINGLE_QUOTE_CHAR
    THEN BreakOffStripDouble(line, char_pos + 1, lag + 1, ~single_quoted,
                             double_quoted)
    ELSE IF ~single_quoted /\ line[char_pos] = DOUBLE_QUOTE_CHAR
    THEN BreakOffStripDouble(line, char_pos + 1, lag + 1, single_quoted,
                             ~double_quoted)
    ELSE LET esc == line[char_pos] = ESCAPE_CHAR
             lag2 == IF esc THEN lag + 1 ELSE lag
             pos2 == IF esc THEN char_pos + 1 ELSE char_pos
         IN  IF esc /\ line[pos2] = NUL
             THEN [problem |-> "bad backslash", line |-> line,
                   new_char_pos |-> pos2]
             ELSE BreakOffStripDouble(
                     IF lag2 # 0
                     THEN [line EXCEPT ![pos2 - lag2] = line[pos2]]
                     ELSE line,
                     pos2 + 1, lag2, single_quoted, double_quoted)

RECURSIVE BreakOffLoop(_, _, _, _, _)
BreakOffLoop(line, char_pos, lag, single_quoted, double_quoted) ==
    IF line[char_pos] = NUL
    THEN BreakOffFinish(line, char_pos, lag, single_quoted, double_quoted,
                        FALSE)
    ELSE IF ~single_quoted /\ ~double_quoted /\ MR_isspace(line[char_pos])
    THEN BreakOffFinish(line, char_pos, lag, single_quoted, double_quoted,
                        TRUE)
    ELSE IF ~double_quoted /\ line[char_pos] = SINGLE_QUOTE_CHAR
    THEN BreakOffLoop(line, char_pos + 1, lag + 1, ~single_quoted,
                      double_quoted)
    ELSE IF ~single_quoted /\ line[char_pos] = DOUBLE_QUOTE_CHAR
    THEN BreakOffLoop(
            IF lag # 0
            THEN [line EXCEPT ![char_pos - lag] = line[char_pos]]
            ELSE line,
            char_pos + 1, lag, single_quoted, ~double_quoted)
    ELSE LET esc == line[char_pos] = ESCAPE_CHAR
             lag2 == IF esc THEN lag + 1 ELSE lag
             pos2 == IF esc THEN char_pos + 1 ELSE char_pos
         IN  IF esc /\ line[pos2] = NUL
             THEN [problem |-> "bad backslash", line |-> line,
                   new_char_pos |-> pos2]
             ELSE BreakOffLoop(
                     IF lag2 # 0
                     THEN [line EXCEPT ![pos2 - lag2] = line[pos2]]
                     ELSE line,
                     pos2 + 1, lag2, single_quoted, double_quoted)

MR_trace_break_off_one_word(line, char_pos) ==
    BreakOffLoop(line, char_pos, 0, FALSE, FALSE)

RECURSIVE SkipSpaces(_, _)
SkipSpaces(line, char_pos) ==
    IF line[char_pos] # NUL /\ MR_isspace(line[char_pos])
    THEN SkipSpaces(line, char_pos + 1)
    ELSE char_pos

\* words holds the start offsets of the tokens found so far
RECURSIVE BreakIntoWordsLoop(_, _, _)
BreakIntoWordsLoop(line, words, char_pos) ==
    LET p == SkipSpaces(line, char_pos) IN
    IF line[p] = NUL
    THEN [problem |-> NULL,
          words |-> [i \in 1..Len(words) |-> CStr(line, words[i])]]
    ELSE LET r == MR_trace_break_off_one_word(line, p) IN
         IF r.problem # NULL
         THEN [problem |-> r.problem, words |-> <<>>]
         ELSE BreakIntoWordsLoop(r.line, Append(words, p), r.new_char_pos)

MR_trace_break_into_words(line) == BreakIntoWordsLoop(Buf(line), <<>>, 1)

RECURSIVE DigitPrefixLen(_)
DigitPrefixLen(s) ==
    IF s # <<>> /\ MR_isdigit(Head(s)) THEN 1 + DigitPrefixLen(Tail(s))
    ELSE 0

\* a parser that leaves a leading number where it is
NeverSwapNumber(raw_words) == raw_words

SwapNumberFirst(raw_words) ==
    IF Len(raw_words) > 1 /\ MR_trace_is_natural_number(raw_words[1])
       /\ ~MR_trace_is_natural_number(raw_words[2])
    THEN <<raw_words[2], raw_words[1]>> \o SubSeq(raw_words, 3, Len(raw_words))
    ELSE raw_words

MR_trace_parse_line(line) ==
    LET b == MR_trace_break_into_words(line) IN
    IF b.problem # NULL THEN b
    ELSE IF Len(b.words) > 0 /\ b.words[1] # <<>> /\ MR_isdigit(b.words[1][1])
    THEN LET n == DigitPrefixLen(b.words[1])
             count_buf == SubSeq(b.words[1], 1, n)
             s == SubSeq(b.words[1], n + 1, Len(b.words[1]))
         IN  IF n > MR_NUMBER_LEN
             THEN [problem |-> "too large a number", words |-> <<>>]
             ELSE IF s # <<>>
             THEN [problem |-> NULL,
                   words |-> SwapNumberFirst(<<count_buf, s>> \o Tail(b.words))]
             ELSE [problem |-> NULL, words |-> SwapNumberFirst(b.words)]
    ELSE [problem |-> NULL, words |-> SwapNumberFirst(b.words)]

-----------------------------------------------------------------------------
(* The session queue: a singly linked list of MR_Line nodes.  A queue      *)
(* state q is [heap, head, tail]; the variables heap, MR_line_head and     *)
(* MR_line_tail hold it between steps.                                     *)

\* node pointers: the null pointer, and the value of a field never assigned
NullNode == 0
UninitNode == 0 - 1

\* a char * that is NULL, and a char * never assigned
NullLine == <<"NULL">>
UninitWord == <<"UNINIT">>

Q == [heap |-> heap, head |-> MR_line_head, tail |-> MR_line_tail]

\* MR_NEW(MR_Line): the lowest free node id
MR_NEW(h) ==
    CHOOSE n \in 1..(Cardinality(DOMAIN h) + 1) :
        /\ n \notin DOMAIN h
        /\ \A m \in 1..(n - 1) : m \in DOMAIN h

AddNode(h, n, contents, next) ==
    [m \in DOMAIN h \cup {n} |->
        IF m = n THEN [MR_line_contents |-> contents, MR_line_next |-> next]
        ELSE h[m]]

FreeNode(h, n) == [m \in DOMAIN h \ {n} |-> h[m]]

\* removal of the head line that leaves MR_line_tail as it is
GetlineQueueKeepsTail(q) ==
    IF q.head # NullNode
    THEN [q |-> [heap |-> FreeNode(q.heap, q.head),
                 head |-> q.heap[q.head].MR_line_next,
                 tail |-> q.tail],
          line |-> q.heap[q.head].MR_line_contents]
    ELSE [q |-> q, line |-> NullLine]

MR_trace_getline_queue(q) ==
    IF q.head # NullNode
    THEN LET old == q.head
             contents == q.heap[q.head].MR_line_contents
             new_head == q.heap[q.head].MR_line_next
         IN  [q |-> [heap |-> FreeNode(q.heap, old),
                     head |-> new_head,
                     tail |-> IF new_head = NullNode THEN NullNode ELSE q.tail],
              line |-> contents]
    ELSE [q |-> q, line |-> NullLine]

MR_insert_line_at_head(q, contents) ==
    LET line == MR_NEW(q.heap) IN
    [heap |-> AddNode(q.heap, line, contents, q.head),
     head |-> line,
     tail |-> IF q.tail = NullNode THEN line ELSE q.tail]

MR_insert_line_at_tail(q, contents) ==
    LET line == MR_NEW(q.heap) IN
    IF q.tail = NullNode
    THEN [heap |-> AddNode(q.heap, line, contents, NullNode),
          head |-> line, tail |-> line]
    ELSE [heap |-> [AddNode(q.heap, line, contents, NullNode)
                        EXCEPT ![q.tail].MR_line_next = line],
          head |-> q.head, tail |-> line]

\* the loop of MR_trace_source_from_open_file over the lines still to read
RECURSIVE SourceLoop(_, _, _)
SourceLoop(q, file, prev_line) ==
    IF file = <<>> THEN [q |-> q, prev_line |-> prev_line]
    ELSE LET line == MR_NEW(q.heap)
             h1 == AddNode(q.heap, line, Head(file), UninitNode)
         IN  SourceLoop(
                IF prev_line = NullNode
                THEN [heap |-> h1, head |-> line, tail |-> q.tail]
                ELSE [heap |-> [h1 EXCEPT ![prev_line].MR_line_next = line],
                      head |-> q.head, tail |-> q.tail],
                Tail(file), line)

\* sourcing that puts each line at the head as it is read
RECURSIVE SourceEachAtHead(_, _)
SourceEachAtHead(q, file) ==
    IF file = <<>> THEN q
    ELSE SourceEachAtHead(MR_insert_line_at_head(q, Head(file)), Tail(file))

\* file is the sequence of lines MR_trace_readline_raw returns for fp
MR_trace_source_from_open_file(q, file) ==
    LET old_head == q.head
        r == SourceLoop(q, file, NullNode)
    IN  IF r.prev_line # NullNode
        THEN [heap |-> [r.q.heap EXCEPT ![r.prev_line].MR_line_next = old_head],
              head |-> r.q.head,
              tail |-> IF r.q.tail = NullNode THEN r.prev_line ELSE r.q.tail]
        ELSE r.q

\* file is what fopen finds for the file name: whether it opens, and its lines
MR_trace_source(q, file) ==
    IF file.opened THEN MR_trace_source_from_open_file(q, file.lines) ELSE q

\* the lines of a queue in the order in which they are linked from node n
RECURSIVE LinesFrom(_, _, _)
LinesFrom(h, n, fuel) ==
    IF n = NullNode \/ n \notin DOMAIN h \/ fuel = 0 THEN <<>>
    ELSE <<h[n].MR_line_contents>> \o LinesFrom(h, h[n].MR_line_next, fuel - 1)

QueueLines(q) == LinesFrom(q.heap, q.head, Cardinality(DOMAIN q.heap) + 1)

-----------------------------------------------------------------------------
(* Reading lines and commands *)

\* a reader that asks the terminal before it looks at the queue
GetlineTerminalFirst(q, typed) ==
    IF typed # NullLine
    THEN [q |-> q, line |-> typed, from |-> "mdb_in"]
    ELSE LET g == MR_trace_getline_queue(q) IN
         [q |-> g.q, line |-> g.line,
          from |-> IF g.line # NullLine THEN "queue" ELSE "mdb_in"]

\* MR_trace_getline: typed is what MR_trace_readline returns if it is called
\* (a line, or NULL at end of input)
MR_trace_getline(q, typed) ==
    LET g == MR_trace_getline_queue(q) IN
    IF g.line # NullLine
    THEN [q |-> g.q, line |-> g.line, from |-> "queue"]
    ELSE [q |-> q, line |-> typed, from |-> "mdb_in"]

\* the scan of MR_trace_continue_line from index i of line (no NUL kept);
\* the result is the line as left in the buffer, the text pushed back, and
\* whether the line continues
RECURSIVE ContinueLoop(_, _, _, _, _)
ContinueLoop(line, i, escaped, single_quoted, double_quoted) ==
    IF i > Len(line)
    THEN [line |-> IF escaped THEN [line EXCEPT ![i - 1] = SPACE] ELSE line,
          split |-> FALSE, rest |-> <<>>,
          single_quoted |-> single_quoted, double_quoted |-> double_quoted,
          continues |-> single_quoted \/ double_quoted \/ escaped]
    ELSE IF escaped
    THEN ContinueLoop(line, i + 1, FALSE, single_quoted, double_quoted)
    ELSE IF line[i] = ESCAPE_CHAR
    THEN ContinueLoop(line, i + 1, TRUE, single_quoted, double_quoted)
    ELSE IF ~double_quoted /\ line[i] = SINGLE_QUOTE_CHAR
    THEN ContinueLoop(line, i + 1, FALSE, ~single_quoted, double_quoted)
    ELSE IF ~single_quoted /\ line[i] = DOUBLE_QUOTE_CHAR
    THEN ContinueLoop(line, i + 1, FALSE, single_quoted, ~double_quoted)
    ELSE IF ~single_quoted /\ ~double_quoted /\ line[i] = SEMI
    THEN [line |-> SubSeq(line, 1, i - 1),
          split |-> TRUE, rest |-> SubSeq(line, i + 1, Len(line)),
          single_quoted |-> single_quoted, double_quoted |-> double_quoted,
          continues |-> FALSE]
    ELSE ContinueLoop(line, i + 1, FALSE, single_quoted, double_quoted)

\* MR_trace_continue_line with the rest of the line put at the tail
ContinueLineAtTail(q, cmd_chars, extra, single_quoted, double_quoted) ==
    LET c == ContinueLoop(cmd_chars \o extra, Len(cmd_chars) + 1, FALSE,
                          single_quoted, double_quoted)
    IN  [q |-> IF c.split THEN MR_insert_line_at_tail(q, c.rest) ELSE q,
         cmd_chars |-> c.line,
         single_quoted |-> c.single_quoted,
         double_quoted |-> c.double_quoted,
         continues |-> c.continues]

\* MR_trace_continue_line for which an open quote does not continue a line
ContinueLineQuotesEnd(q, cmd_chars, extra, single_quoted, double_quoted) ==
    LET c == ContinueLoop(cmd_chars \o extra, Len(cmd_chars) + 1, FALSE,
                          single_quoted, double_quoted)
    IN  [q |-> IF c.split THEN MR_insert_line_at_head(q, c.rest) ELSE q,
         cmd_chars |-> c.line,
         single_quoted |-> c.single_quoted,
         double_quoted |-> c.double_quoted,
         continues |-> c.continues /\ ~c.single_quoted /\ ~c.double_quoted]

\* MR_trace_continue_line(ptr, ...) with ptr = cmd_chars + len: the text
\* before ptr is g.cmd_chars, the text at ptr is extra
MR_trace_continue_line(q, cmd_chars, extra, single_quoted, double_quoted) ==
    LET c == ContinueLoop(cmd_chars \o extra, Len(cmd_chars) + 1, FALSE,
                          single_quoted, double_quoted)
    IN  [q |-> IF c.split THEN MR_insert_line_at_head(q, c.rest) ELSE q,
         cmd_chars |-> c.line,
         single_quoted |-> c.single_quoted,
         double_quoted |-> c.double_quoted,
         continues |-> c.continues]

-----------------------------------------------------------------------------
(* Words of the command language, as C strings *)

W ==
    [step |-> <<"s", "t", "e", "p">>,
     goto |-> <<"g", "o", "t", "o">>,
     next |-> <<"n", "e", "x", "t">>,
     finish |-> <<"f", "i", "n", "i", "s", "h">>,
     fail |-> <<"f", "a", "i", "l">>,
     exception |-> <<"e", "x", "c", "e", "p", "t", "i", "o", "n">>,
     return |-> <<"r", "e", "t", "u", "r", "n">>,
     forward |-> <<"f", "o", "r", "w", "a", "r", "d">>,
     mindepth |-> <<"m", "i", "n", "d", "e", "p", "t", "h">>,
     maxdepth |-> <<"m", "a", "x", "d", "e", "p", "t", "h">>,
     continue |-> <<"c", "o", "n", "t", "i", "n", "u", "e">>,
     retry |-> <<"r", "e", "t", "r", "y">>,
     printlevel |-> <<"p", "r", "i", "n", "t", "l", "e", "v", "e", "l">>,
     scroll |-> <<"s", "c", "r", "o", "l", "l">>,
     echo |-> <<"e", "c", "h", "o">>,
     alias |-> <<"a", "l", "i", "a", "s">>,
     unalias |-> <<"u", "n", "a", "l", "i", "a", "s">>,
     source |-> <<"s", "o", "u", "r", "c", "e">>,
     quit |-> <<"q", "u", "i", "t">>,
     NUMBER |-> <<"N", "U", "M", "B", "E", "R">>,
     EMPTY |-> <<"E", "M", "P", "T", "Y">>,
     on |-> <<"o", "n">>,
     off |-> <<"o", "f", "f">>,
     none |-> <<"n", "o", "n", "e">>,
     some |-> <<"s", "o", "m", "e">>,
     all |-> <<"a", "l", "l">>,
     strict |-> <<"s", "t", "r", "i", "c", "t">>,
     break |-> <<"b", "r", "e", "a", "k">>,
     condition |-> <<"c", "o", "n", "d", "i", "t", "i", "o", "n">>,
     ignore |-> <<"i", "g", "n", "o", "r", "e">>,
     break_print |-> <<"b", "r", "e", "a", "k", "_", "p", "r", "i", "n", "t">>,
     enable |-> <<"e", "n", "a", "b", "l", "e">>,
     disable |-> <<"d", "i", "s", "a", "b", "l", "e">>,
     delete |-> <<"d", "e", "l", "e", "t", "e">>,
     context |-> <<"c", "o", "n", "t", "e", "x", "t">>,
     goal_paths |-> <<"g", "o", "a", "l", "_", "p", "a", "t", "h", "s">>,
     scope |-> <<"s", "c", "o", "p", "e">>,
     save |-> <<"s", "a", "v", "e">>,
     integrity |-> <<"i", "n", "t", "e", "g", "r", "i", "t", "y">>,
     table_io |-> <<"t", "a", "b", "l", "e", "_", "i", "o">>,
     start |-> <<"s", "t", "a", "r", "t">>,
     begin |-> <<"b", "e", "g", "i", "n">>,
     stop |-> <<"s", "t", "o", "p">>,
     end |-> <<"e", "n", "d">>,
     stats |-> <<"s", "t", "a", "t", "s">>,
     allow |-> <<"a", "l", "l", "o", "w">>,
     info |-> <<"i", "n", "f", "o">>,
     here |-> <<"h", "e", "r", "e">>,
     before |-> <<"b", "e", "f", "o", "r", "e">>,
     after |-> <<"a", "f", "t", "e", "r">>,
     prevline |-> <<"p", "r", "e", "v", "l", "i", "n", "e">>,
     nextline |-> <<"n", "e", "x", "t", "l", "i", "n", "e">>,
     nowhere |-> <<"n", "o", "w", "h", "e", "r", "e">>,
     interface |-> <<"i", "n", "t", "e", "r", "f", "a", "c", "e">>,
     entry |-> <<"e", "n", "t", "r", "y">>,
     zz |-> <<"z", "z">>,
     f |-> <<"f">>,
     y |-> <<"y">>,
     q |-> <<"q">>,
     a |-> <<"a">>]

\* the option word -c
Opt(c) == <<"-", c>>

\* the line made of the words ws separated by single spaces
RECURSIVE Line(_)
Line(ws) ==
    IF ws = <<>> THEN <<>>
    ELSE IF Len(ws) = 1 THEN ws[1]
    ELSE ws[1] \o <<SPACE>> \o Line(Tail(ws))

-----------------------------------------------------------------------------
(* The dispatch table *)

MR_trace_command_infos ==
    << [MR_cmd_name |-> W.step, MR_cmd_function |-> "MR_trace_cmd_step"],
       [MR_cmd_name |-> W.goto, MR_cmd_function |-> "MR_trace_cmd_goto"],
       [MR_cmd_name |-> W.next, MR_cmd_function |-> "MR_trace_cmd_next"],
       [MR_cmd_name |-> W.finish, MR_cmd_function |-> "MR_trace_cmd_finish"],
       [MR_cmd_name |-> W.fail, MR_cmd_function |-> "MR_trace_cmd_fail"],
       [MR_cmd_name |-> W.exception,
            MR_cmd_function |-> "MR_trace_cmd_exception"],
       [MR_cmd_name |-> W.return, MR_cmd_function |-> "MR_trace_cmd_return"],
       [MR_cmd_name |-> W.forward, MR_cmd_function |-> "MR_trace_cmd_forward"],
       [MR_cmd_name |-> W.mindepth,
            MR_cmd_function |-> "MR_trace_cmd_mindepth"],
       [MR_cmd_name |-> W.maxdepth,
            MR_cmd_function |-> "MR_trace_cmd_maxdepth"],
       [MR_cmd_name |-> W.continue,
            MR_cmd_function |-> "MR_trace_cmd_continue"],
       [MR_cmd_name |-> W.retry, MR_cmd_function |-> "MR_trace_cmd_retry"],
       [MR_cmd_name |-> W.break, MR_cmd_function |-> "MR_trace_cmd_break"],
       [MR_cmd_name |-> W.condition,
            MR_cmd_function |-> "MR_trace_cmd_condition"],
       [MR_cmd_name |-> W.ignore, MR_cmd_function |-> "MR_trace_cmd_ignore"],
       [MR_cmd_name |-> W.break_print,
            MR_cmd_function |-> "MR_trace_cmd_break_print"],
       [MR_cmd_name |-> W.enable, MR_cmd_function |-> "MR_trace_cmd_enable"],
       [MR_cmd_name |-> W.disable, MR_cmd_function |-> "MR_trace_cmd_disable"],
       [MR_cmd_name |-> W.delete, MR_cmd_function |-> "MR_trace_cmd_delete"],
       [MR_cmd_name |-> W.table_io,
            MR_cmd_function |-> "MR_trace_cmd_table_io"],
       [MR_cmd_name |-> W.printlevel,
            MR_cmd_function |-> "MR_trace_cmd_printlevel"],
       [MR_cmd_name |-> W.scroll, MR_cmd_function |-> "MR_trace_cmd_scroll"],
       [MR_cmd_name |-> W.context, MR_cmd_function |-> "MR_trace_cmd_context"],
       [MR_cmd_name |-> W.goal_paths,
            MR_cmd_function |-> "MR_trace_cmd_goal_paths"],
       [MR_cmd_name |-> W.scope, MR_cmd_function |-> "MR_trace_cmd_scope"],
       [MR_cmd_name |-> W.echo, MR_cmd_function |-> "MR_trace_cmd_echo"],
       [MR_cmd_name |-> W.alias, MR_cmd_function |-> "MR_trace_cmd_alias"],
       [MR_cmd_name |-> W.unalias, MR_cmd_function |-> "MR_trace_cmd_unalias"],
       [MR_cmd_name |-> W.source, MR_cmd_function |-> "MR_trace_cmd_source"],
       [MR_cmd_name |-> W.save, MR_cmd_function |-> "MR_trace_cmd_save"],
       [MR_cmd_name |-> W.quit, MR_cmd_function |-> "MR_trace_cmd_quit"],
       [MR_cmd_name |-> W.NUMBER, MR_cmd_function |-> NULL],
       [MR_cmd_name |-> W.EMPTY, MR_cmd_function |-> NULL],
       [MR_cmd_name |-> NullLine, MR_cmd_function |-> NULL] >>

\* the index of the first entry from i on whose name is word, or 0 when the
\* entry with the NULL name is reached first
RECURSIVE ValidCommandFrom(_, _)
ValidCommandFrom(word, i) ==
    IF MR_trace_command_infos[i].MR_cmd_name = NullLine THEN 0
    ELSE IF MR_trace_command_infos[i].MR_cmd_name = word THEN i
    ELSE ValidCommandFrom(word, i + 1)

\* the index of the entry found for word, or 0 for NULL
MR_trace_valid_command(word) == ValidCommandFrom(word, 1)

-----------------------------------------------------------------------------
(* The alias table: a function from alias names to word sequences *)

MR_trace_lookup_alias(table, name) == name \in DOMAIN table

MR_trace_add_alias(table, name, ws) ==
    [k \in DOMAIN table \cup {name} |-> IF k = name THEN ws ELSE table[k]]

MR_trace_remove_alias(table, name) ==
    [k \in DOMAIN table \ {name} |-> table[k]]

\* the loop that moves the original words (except the alias key) up;
\* arr is the words array (index i here is words[i - 1] in C)
RECURSIVE MoveWordsUp(_, _, _, _)
MoveWordsUp(arr, i, alias_copy_start, shift) ==
    IF i < alias_copy_start + 1 THEN arr
    ELSE MoveWordsUp([arr EXCEPT ![i + shift] = arr[i]], i - 1,
                     alias_copy_start, shift)

\* the loop that moves the alias body to the words array
RECURSIVE CopyAliasBody(_, _, _)
CopyAliasBody(arr, alias_words, i) ==
    IF i > Len(alias_words) THEN arr
    ELSE CopyAliasBody([arr EXCEPT ![i] = alias_words[i]], alias_words, i + 1)

\* an expansion that takes word one away for the keys EMPTY and NUMBER too
ExpandAliasesDropsNumber(table, words) ==
    LET alias_key == IF Len(words) = 0 THEN W.EMPTY
                     ELSE IF MR_trace_is_natural_number(words[1]) THEN W.NUMBER
                     ELSE words[1]
    IN  IF MR_trace_lookup_alias(table, alias_key)
        THEN table[alias_key] \o (IF words = <<>> THEN <<>> ELSE Tail(words))
        ELSE words

MR_trace_expand_aliases(table, words) ==
    LET word_count == Len(words)
        alias_key == IF word_count = 0 THEN W.EMPTY
                     ELSE IF MR_trace_is_natural_number(words[1]) THEN W.NUMBER
                     ELSE words[1]
        alias_copy_start == IF word_count = 0 THEN 0
                            ELSE IF MR_trace_is_natural_number(words[1]) THEN 0
                            ELSE 1
    IN  IF MR_trace_lookup_alias(table, alias_key)
        THEN LET alias_words == table[alias_key]
                 alias_word_count == Len(alias_words)
                 big == [i \in 1..(word_count + alias_word_count) |->
                            IF i <= word_count THEN words[i] ELSE UninitWord]
                 moved == MoveWordsUp(big, word_count, alias_copy_start,
                                      alias_word_count - alias_copy_start)
                 filled == CopyAliasBody(moved, alias_words, 1)
             IN  SubSeq(filled, 1,
                        word_count + alias_word_count - alias_copy_start)
        ELSE words

-----------------------------------------------------------------------------
(* Option parsing.  GetOpt gives the option codes MR_getopt returns for    *)
(* the words of a command, in order ("?" for an option it does not know),  *)
(* and the words left once *words and *word_count have been advanced past  *)
(* the options: position one, then the arguments that are not options.     *)

IsOptionWord(w) == Len(w) >= 2 /\ w[1] = "-" /\ w # <<"-", "-">>

RECURSIVE OptionEnd(_, _)
OptionEnd(words, i) ==
    IF i > Len(words) THEN i
    ELSE IF words[i] = <<"-", "-">> THEN i
    ELSE OptionEnd(words, i + 1)

OptionCodes(w, shortopts, longopts) ==
    IF w[2] = "-"
    THEN LET name == SubSeq(w, 3, Len(w)) IN
         IF name \in DOMAIN longopts THEN <<longopts[name]>> ELSE <<"?">>
    ELSE [i \in 1..(Len(w) - 1) |->
            IF w[i + 1] \in shortopts THEN w[i + 1] ELSE "?"]

RECURSIVE GetOptCodes(_, _, _, _, _)
GetOptCodes(words, i, last, shortopts, longopts) ==
    IF i >= last THEN <<>>
    ELSE (IF IsOptionWord(words[i])
          THEN OptionCodes(words[i], shortopts, longopts) ELSE <<>>)
         \o GetOptCodes(words, i + 1, last, shortopts, longopts)

RECURSIVE NonOptions(_, _, _)
NonOptions(words, i, last) ==
    IF i > Len(words) THEN <<>>
    ELSE (IF i < last /\ IsOptionWord(words[i]) THEN <<>>
          ELSE IF i = last THEN <<>>
          ELSE <<words[i]>>)
         \o NonOptions(words, i + 1, last)

GetOpt(words, shortopts, longopts) ==
    LET last == OptionEnd(words, 2) IN
    [codes |-> GetOptCodes(words, 2, last, shortopts, longopts),
     words |-> <<words[1]>> \o NonOptions(words, 2, last)]

NoLongOpts == [name \in {} |-> "?"]

-----------------------------------------------------------------------------
(* Command handlers.  A handler takes the words of the command, the        *)
(* session state s (the decision record cmd, the queue q, the alias table  *)
(* and the settings), the event ev and what the environment supplies to    *)
(* it (x), and gives the session state it leaves, with                     *)
(*   next   the MR_Next it returns,                                        *)
(*   msg    the last diagnostic it printed,                                *)
(*   retry  whether it called MR_trace_retry,                              *)
(*   after  "return", or "confirm" when it stops to read the reply to the  *)
(*          quit question, "exit" when it ends the process.                *)

KEEP_INTERACTING == "KEEP_INTERACTING"
STOP_INTERACTING == "STOP_INTERACTING"

MR_PRINT_LEVEL_NONE == "MR_PRINT_LEVEL_NONE"
MR_PRINT_LEVEL_SOME == "MR_PRINT_LEVEL_SOME"
MR_PRINT_LEVEL_ALL == "MR_PRINT_LEVEL_ALL"

MR_PORT_CALL == "MR_PORT_CALL"
MR_PORT_EXIT == "MR_PORT_EXIT"
MR_PORT_REDO == "MR_PORT_REDO"
MR_PORT_FAIL == "MR_PORT_FAIL"
MR_PORT_EXCEPTION == "MR_PORT_EXCEPTION"

MR_port_is_final(port) ==
    port \in {MR_PORT_EXIT, MR_PORT_FAIL, MR_PORT_EXCEPTION}

MR_port_is_entry(port) == port = MR_PORT_CALL

MR_DETISM_DET_STACK(detism) == detism \notin {"nondet", "multi"}

Keep(s, msg) == [s EXCEPT !.next = KEEP_INTERACTING, !.msg = msg]

Stop(s) == [s EXCEPT !.next = STOP_INTERACTING]

\* MR_trace_usage_cur_cmd
Usage(s) == Keep([s EXCEPT !.usage = TRUE], "usage error")

\* MR_trace_do_noop
MR_trace_do_noop(s) == Keep(s, "This command is a no-op from this port")

MR_trace_movement_cmd_opts ==
    [name \in {W.all, W.none, W.some, <<"n", "o">> \o W.strict, W.strict,
               W.integrity} |->
        IF name = W.all THEN "a"
        ELSE IF name = W.integrity THEN "i"
        ELSE IF name = W.none THEN "n"
        ELSE IF name = W.some THEN "s"
        ELSE IF name = W.strict THEN "S"
        ELSE "N"]

\* The field MR_trace_check_integrity of the decision record and the option
\* -i exist only in a build with MR_TRACE_CHECK_INTEGRITY; the record of a
\* build without it has "absent" in the place of the field.
MR_TRACE_CHECK_INTEGRITY(c) == c.MR_trace_check_integrity # "absent"

MR_init_trace_check_integrity(c) ==
    [c EXCEPT !.MR_trace_check_integrity =
        IF @ = "absent" THEN "absent" ELSE "MR_FALSE"]

RECURSIVE MovementOptLoop(_, _)
MovementOptLoop(c, codes) ==
    IF codes = <<>> THEN [ok |-> TRUE, cmd |-> c]
    ELSE IF Head(codes) = "i" /\ MR_TRACE_CHECK_INTEGRITY(c)
    THEN MovementOptLoop([c EXCEPT !.MR_trace_check_integrity = "MR_TRUE"],
                         Tail(codes))
    ELSE IF Head(codes) = "N"
    THEN MovementOptLoop([c EXCEPT !.MR_trace_strict = FALSE], Tail(codes))
    ELSE IF Head(codes) = "S"
    THEN MovementOptLoop([c EXCEPT !.MR_trace_strict = TRUE], Tail(codes))
    ELSE IF Head(codes) = "a"
    THEN MovementOptLoop(
            [c EXCEPT !.MR_trace_print_level = MR_PRINT_LEVEL_ALL],
            Tail(codes))
    ELSE IF Head(codes) = "n"
    THEN MovementOptLoop(
            [c EXCEPT !.MR_trace_print_level = MR_PRINT_LEVEL_NONE],
            Tail(codes))
    ELSE IF Head(codes) = "s"
    THEN MovementOptLoop(
            [c EXCEPT !.MR_trace_print_level = MR_PRINT_LEVEL_SOME],
            Tail(codes))
    ELSE [ok |-> FALSE, cmd |-> c]

\* gives whether the options are fine, the decision record as the options
\* leave it, and the words left
\* The options are scanned with the table and the string "NSains" of a build
\* with MR_TRACE_CHECK_INTEGRITY; in a build without it the scan answers
\* '?' for i, which the loop takes to its default case as it takes i here.
MR_trace_options_movement_cmd(c, words) ==
    LET g == GetOpt(words, {"N", "S", "a", "i", "n", "s"},
                    MR_trace_movement_cmd_opts)
        r == MovementOptLoop(c, g.codes)
    IN  [ok |-> r.ok, cmd |-> r.cmd, words |-> g.words]

\* the start every movement handler but continue and retry shares: strict
\* and the default print level are stored before the options are parsed
\* a movement command that starts from the strictness and the print level
\* the decision record already has
MovementStartKeeps(s, strict, words) ==
    MR_trace_options_movement_cmd(s.cmd, words)

MovementStart(s, strict, words) ==
    MR_trace_options_movement_cmd(
        MR_init_trace_check_integrity(
            [s.cmd EXCEPT !.MR_trace_strict = strict,
                          !.MR_trace_print_level = s.MR_default_print_level]),
        words)

\* MR_trace_cmd_step that stops at the next event whatever number is given
StepIgnoresNumber(words, s, ev, x) ==
    LET o == MovementStart(s, FALSE, words)
        s1 == [s EXCEPT !.cmd = o.cmd]
    IN  IF ~o.ok THEN Usage(s1)
        ELSE IF Len(o.words) = 1
                \/ (Len(o.words) = 2 /\ MR_trace_is_natural_number(o.words[2]))
        THEN Stop([s1 EXCEPT !.cmd.MR_trace_cmd = "MR_CMD_GOTO",
                      !.cmd.MR_trace_stop_event = ev.MR_trace_event_number + 1])
        ELSE Usage(s1)

MR_trace_cmd_step(words, s, ev, x) ==
    LET o == MovementStart(s, FALSE, words)
        s1 == [s EXCEPT !.cmd = o.cmd]
    IN  IF ~o.ok THEN Usage(s1)
        ELSE IF Len(o.words) = 1
        THEN Stop([s1 EXCEPT !.cmd.MR_trace_cmd = "MR_CMD_GOTO",
                      !.cmd.MR_trace_stop_event = ev.MR_trace_event_number + 1])
        ELSE IF Len(o.words) = 2 /\ MR_trace_is_natural_number(o.words[2])
        THEN Stop([s1 EXCEPT !.cmd.MR_trace_cmd = "MR_CMD_GOTO",
                      !.cmd.MR_trace_stop_event =
                          ev.MR_trace_event_number + NaturalValue(o.words[2])])
        ELSE Usage(s1)

MR_trace_cmd_goto(words, s, ev, x) ==
    LET o == MovementStart(s, TRUE, words)
        s1 == [s EXCEPT !.cmd = o.cmd]
    IN  IF ~o.ok THEN Usage(s1)
        ELSE IF Len(o.words) = 2 /\ MR_trace_is_natural_number(o.words[2])
        THEN IF ev.MR_trace_event_number < NaturalValue(o.words[2])
             THEN Stop([s1 EXCEPT !.cmd.MR_trace_cmd = "MR_CMD_GOTO",
                           !.cmd.MR_trace_stop_event =
                               NaturalValue(o.words[2])])
             ELSE Keep(s1, "The debugger cannot go to a past event")
        ELSE Usage(s1)

\* next, finish and fail: the stop depth; usage when the words are wrong
StopDepth(o, depth) ==
    IF Len(o.words) = 2 /\ MR_trace_is_natural_number(o.words[2])
    THEN [usage |-> FALSE, stop_depth |-> depth - NaturalValue(o.words[2])]
    ELSE IF Len(o.words) = 1 THEN [usage |-> FALSE, stop_depth |-> depth]
    ELSE [usage |-> TRUE, stop_depth |-> depth]

\* next that stops at a final port of the current call as well
NextWithoutNoop(words, s, ev, x) ==
    LET o == MovementStart(s, TRUE, words)
        s1 == [s EXCEPT !.cmd = o.cmd]
        d == StopDepth(o, ev.MR_call_depth)
    IN  IF ~o.ok \/ d.usage THEN Usage(s1)
        ELSE Stop([s1 EXCEPT !.cmd.MR_trace_cmd = "MR_CMD_NEXT",
                      !.cmd.MR_trace_stop_depth = d.stop_depth])

MR_trace_cmd_next(words, s, ev, x) ==
    LET depth == ev.MR_call_depth
        o == MovementStart(s, TRUE, words)
        s1 == [s EXCEPT !.cmd = o.cmd]
        d == StopDepth(o, depth)
        stop_depth == d.stop_depth
    IN  IF ~o.ok THEN Usage(s1)
        ELSE IF d.usage THEN Usage(s1)
        ELSE IF depth = stop_depth /\ MR_port_is_final(ev.MR_trace_port)
        THEN MR_trace_do_noop(s1)
        ELSE Stop([s1 EXCEPT !.cmd.MR_trace_cmd = "MR_CMD_NEXT",
                      !.cmd.MR_trace_stop_depth = stop_depth])

MR_trace_cmd_finish(words, s, ev, x) ==
    LET depth == ev.MR_call_depth
        o == MovementStart(s, TRUE, words)
        s1 == [s EXCEPT !.cmd = o.cmd]
        d == StopDepth(o, depth)
        stop_depth == d.stop_depth
    IN  IF ~o.ok THEN Usage(s1)
        ELSE IF d.usage THEN Usage(s1)
        ELSE IF depth = stop_depth /\ MR_port_is_final(ev.MR_trace_port)
        THEN MR_trace_do_noop(s1)
        ELSE Stop([s1 EXCEPT !.cmd.MR_trace_cmd = "MR_CMD_FINISH",
                      !.cmd.MR_trace_stop_depth = stop_depth])

\* fail that does not look at the determinism of the procedure
FailAnyDetism(words, s, ev, x) ==
    LET o == MovementStart(s, TRUE, words)
        s1 == [s EXCEPT !.cmd = o.cmd]
        d == StopDepth(o, ev.MR_call_depth)
    IN  IF ~o.ok \/ d.usage THEN Usage(s1)
        ELSE IF ev.MR_call_depth = d.stop_depth /\ ev.MR_trace_port = MR_PORT_FAIL
        THEN MR_trace_do_noop(s1)
        ELSE IF ev.MR_call_depth = d.stop_depth /\ ev.MR_trace_port = MR_PORT_EXCEPTION
        THEN Keep(s1, "cannot continue until failure: exception")
        ELSE Stop([s1 EXCEPT !.cmd.MR_trace_cmd = "MR_CMD_FAIL",
                      !.cmd.MR_trace_stop_depth = d.stop_depth])

MR_trace_cmd_fail(words, s, ev, x) ==
    LET detism == ev.MR_sle_detism
        depth == ev.MR_call_depth
        o == MovementStart(s, TRUE, words)
        s1 == [s EXCEPT !.cmd = o.cmd]
        d == StopDepth(o, depth)
        stop_depth == d.stop_depth
    IN  IF ~o.ok THEN Usage(s1)
        ELSE IF d.usage THEN Usage(s1)
        ELSE IF MR_DETISM_DET_STACK(detism)
        THEN Keep(s1, "cannot continue until failure: determinism")
        ELSE IF depth = stop_depth /\ ev.MR_trace_port = MR_PORT_FAIL
        THEN MR_trace_do_noop(s1)
        ELSE IF depth = stop_depth /\ ev.MR_trace_port = MR_PORT_EXCEPTION
        THEN Keep(s1, "cannot continue until failure: exception")
        ELSE Stop([s1 EXCEPT !.cmd.MR_trace_cmd = "MR_CMD_FAIL",
                      !.cmd.MR_trace_stop_depth = stop_depth])

MR_trace_cmd_exception(words, s, ev, x) ==
    LET o == MovementStart(s, TRUE, words)
        s1 == [s EXCEPT !.cmd = o.cmd]
    IN  IF ~o.ok THEN Usage(s1)
        ELSE IF Len(o.words) = 1
        THEN IF ev.MR_trace_port # MR_PORT_EXCEPTION
             THEN Stop([s1 EXCEPT !.cmd.MR_trace_cmd = "MR_CMD_EXCP"])
             ELSE MR_trace_do_noop(s1)
        ELSE Usage(s1)

MR_trace_cmd_return(words, s, ev, x) ==
    LET o == MovementStart(s, TRUE, words)
        s1 == [s EXCEPT !.cmd = o.cmd]
    IN  IF ~o.ok THEN Usage(s1)
        ELSE IF Len(o.words) = 1
        THEN IF ev.MR_trace_port = MR_PORT_EXIT
             THEN Stop([s1 EXCEPT !.cmd.MR_trace_cmd = "MR_CMD_RETURN"])
             ELSE MR_trace_do_noop(s1)
        ELSE Usage(s1)

\* forward that resumes forward execution from any port
ForwardAnyPort(words, s, ev, x) ==
    LET o == MovementStart(s, TRUE, words)
        s1 == [s EXCEPT !.cmd = o.cmd]
    IN  IF ~o.ok THEN Usage(s1)
        ELSE IF Len(o.words) = 1
        THEN Stop([s1 EXCEPT !.cmd.MR_trace_cmd = "MR_CMD_RESUME_FORWARD"])
        ELSE Usage(s1)

MR_trace_cmd_forward(words, s, ev, x) ==
    LET o == MovementStart(s, TRUE, words)
        s1 == [s EXCEPT !.cmd = o.cmd]
        port == ev.MR_trace_port
    IN  IF ~o.ok THEN Usage(s1)
        ELSE IF Len(o.words) = 1
        THEN IF port \in {MR_PORT_FAIL, MR_PORT_REDO, MR_PORT_EXCEPTION}
             THEN Stop([s1 EXCEPT !.cmd.MR_trace_cmd = "MR_CMD_RESUME_FORWARD"])
             ELSE MR_trace_do_noop(s1)
        ELSE Usage(s1)

MR_trace_cmd_mindepth(words, s, ev, x) ==
    LET o == MovementStart(s, TRUE, words)
        s1 == [s EXCEPT !.cmd = o.cmd]
    IN  IF ~o.ok THEN Usage(s1)
        ELSE IF Len(o.words) = 2 /\ MR_trace_is_natural_number(o.words[2])
        THEN Stop([s1 EXCEPT !.cmd.MR_trace_cmd = "MR_CMD_MIN_DEPTH",
                      !.cmd.MR_trace_stop_depth = NaturalValue(o.words[2])])
        ELSE Usage(s1)

MR_trace_cmd_maxdepth(words, s, ev, x) ==
    LET o == MovementStart(s, TRUE, words)
        s1 == [s EXCEPT !.cmd = o.cmd]
    IN  IF ~o.ok THEN Usage(s1)
        ELSE IF Len(o.words) = 2 /\ MR_trace_is_natural_number(o.words[2])
        THEN Stop([s1 EXCEPT !.cmd.MR_trace_cmd = "MR_CMD_MAX_DEPTH",
                      !.cmd.MR_trace_stop_depth = NaturalValue(o.words[2])])
        ELSE Usage(s1)

\* the print level continue stores before parsing: (MR_Trace_Cmd_Type) -1
UnsetPrintLevel == "-1"

\* MR_trace_cmd_continue that takes SOME for a print level left unset,
\* strict or not
ContinueUnsetIsSome(words, s, ev, x) ==
    LET o == MR_trace_options_movement_cmd(
                MR_init_trace_check_integrity(
                    [s.cmd EXCEPT !.MR_trace_strict = FALSE,
                                  !.MR_trace_print_level = UnsetPrintLevel]),
                words)
        s1 == [s EXCEPT !.cmd = o.cmd]
    IN  IF ~o.ok THEN Usage(s1)
        ELSE IF Len(o.words) = 1
        THEN Stop([s1 EXCEPT !.cmd.MR_trace_cmd = "MR_CMD_TO_END",
                      !.cmd.MR_trace_print_level =
                          IF o.cmd.MR_trace_print_level = UnsetPrintLevel
                          THEN MR_PRINT_LEVEL_SOME
                          ELSE o.cmd.MR_trace_print_level])
        ELSE Usage(s1)

MR_trace_cmd_continue(words, s, ev, x) ==
    LET o == MR_trace_options_movement_cmd(
                MR_init_trace_check_integrity(
                    [s.cmd EXCEPT !.MR_trace_strict = FALSE,
                                  !.MR_trace_print_level = UnsetPrintLevel]),
                words)
        s1 == [s EXCEPT !.cmd = o.cmd]
    IN  IF ~o.ok THEN Usage(s1)
        ELSE IF Len(o.words) = 1
        THEN Stop([s1 EXCEPT !.cmd.MR_trace_cmd = "MR_CMD_TO_END",
                      !.cmd.MR_trace_print_level =
                          IF o.cmd.MR_trace_print_level = UnsetPrintLevel
                          THEN IF o.cmd.MR_trace_strict
                               THEN MR_PRINT_LEVEL_NONE
                               ELSE MR_PRINT_LEVEL_SOME
                          ELSE o.cmd.MR_trace_print_level])
        ELSE Usage(s1)

RECURSIVE RetryOptLoop(_)
RetryOptLoop(codes) ==
    IF codes = <<>> THEN TRUE
    ELSE IF Head(codes) \in {"a", "f", "i", "o"} THEN RetryOptLoop(Tail(codes))
    ELSE FALSE

\* the options only select how MR_trace_retry treats I/O, which the
\* environment's answer x.retry covers
MR_trace_retry_opts ==
    [name \in {<<"a", "s", "s", "u", "m", "e", "-", "a", "l", "l", "-", "i",
                  "o", "-", "i", "s", "-", "t", "a", "b", "l", "e", "d">>,
                <<"f", "o", "r", "c", "e">>,
                <<"i", "n", "t", "e", "r", "a", "c", "t", "i", "v", "e">>,
                <<"o", "n", "l", "y", "-", "i", "f", "-", "s", "a", "f", "e">>}
        |-> name[1]]

MR_trace_options_retry(words) ==
    LET g == GetOpt(words, {"a", "f", "i", "o"}, MR_trace_retry_opts) IN
    [ok |-> RetryOptLoop(g.codes), words |-> g.words]

\* retry that puts the line `retry -o' behind the lines queued
RetryLineAtTail(words, s, ev, x) ==
    LET o == MR_trace_options_retry(words)
        w == IF o.ok THEN o.words ELSE words
        s0 == IF o.ok THEN s
              ELSE [s EXCEPT !.msg = "usage error", !.usage = TRUE]
        numbered == o.ok /\ Len(w) = 2 /\ MR_trace_is_natural_number(w[2])
        ancestor_level == IF numbered THEN NaturalValue(w[2]) ELSE 0
        first == [s0 EXCEPT
                    !.retry = TRUE,
                    !.cmd.MR_trace_stop_depth =
                        ev.MR_call_depth - ancestor_level,
                    !.cmd.MR_trace_strict = TRUE,
                    !.cmd.MR_trace_print_level = MR_PRINT_LEVEL_NONE,
                    !.q = MR_insert_line_at_tail(s.q, Line(<<W.retry, Opt("o")>>))]
    IN  IF o.ok /\ ~numbered /\ Len(w) # 1 THEN Usage(s0)
        ELSE IF ancestor_level = 0 /\ MR_port_is_entry(ev.MR_trace_port)
        THEN MR_trace_do_noop(s0)
        ELSE IF x.retry = "MR_RETRY_OK_DIRECT"
        THEN Stop([s0 EXCEPT
                    !.retry = TRUE,
                    !.jumpaddr = "retry",
                    !.cmd.MR_trace_cmd = "MR_CMD_GOTO",
                    !.cmd.MR_trace_stop_event = ev.MR_trace_event_number + 1,
                    !.cmd.MR_trace_strict = FALSE,
                    !.cmd.MR_trace_print_level = s.MR_default_print_level])
        ELSE IF x.retry = "MR_RETRY_OK_FINISH_FIRST"
        THEN Stop([first EXCEPT !.cmd.MR_trace_cmd = "MR_CMD_FINISH"])
        ELSE IF x.retry = "MR_RETRY_OK_FAIL_FIRST"
        THEN Stop([first EXCEPT !.cmd.MR_trace_cmd = "MR_CMD_FAIL"])
        ELSE Keep([s0 EXCEPT !.retry = TRUE], "retry problem")

\* x.retry is the MR_Retry_Result of MR_trace_retry
MR_trace_cmd_retry(words, s, ev, x) ==
    LET o == MR_trace_options_retry(words)
        \* when the options are bad only the usage message is printed and
        \* control reaches the code after the if-else chain
        w == IF o.ok THEN o.words ELSE words
        s0 == IF o.ok THEN s
              ELSE [s EXCEPT !.msg = "usage error", !.usage = TRUE]
        numbered == o.ok /\ Len(w) = 2 /\ MR_trace_is_natural_number(w[2])
        ancestor_level == IF numbered THEN NaturalValue(w[2]) ELSE 0
    IN  IF o.ok /\ ~numbered /\ Len(w) # 1 THEN Usage(s0)
        ELSE IF ancestor_level = 0 /\ MR_port_is_entry(ev.MR_trace_port)
        THEN MR_trace_do_noop(s0)
        ELSE LET s1 == [s0 EXCEPT !.retry = TRUE] IN
             IF x.retry = "MR_RETRY_OK_DIRECT"
             THEN Stop([s1 EXCEPT
                    !.jumpaddr = "retry",
                    !.cmd.MR_trace_cmd = "MR_CMD_GOTO",
                    !.cmd.MR_trace_stop_event = ev.MR_trace_event_number + 1,
                    !.cmd.MR_trace_strict = FALSE,
                    !.cmd.MR_trace_print_level = s.MR_default_print_level])
             ELSE IF x.retry = "MR_RETRY_OK_FINISH_FIRST"
             THEN Stop([s1 EXCEPT
                    !.cmd.MR_trace_cmd = "MR_CMD_FINISH",
                    !.cmd.MR_trace_stop_depth =
                        ev.MR_call_depth - ancestor_level,
                    !.cmd.MR_trace_strict = TRUE,
                    !.cmd.MR_trace_print_level = MR_PRINT_LEVEL_NONE,
                    !.q = MR_insert_line_at_head(s.q, Line(<<W.retry, Opt("o")>>))])
             ELSE IF x.retry = "MR_RETRY_OK_FAIL_FIRST"
             THEN Stop([s1 EXCEPT
                    !.cmd.MR_trace_cmd = "MR_CMD_FAIL",
                    !.cmd.MR_trace_stop_depth =
                        ev.MR_call_depth - ancestor_level,
                    !.cmd.MR_trace_strict = TRUE,
                    !.cmd.MR_trace_print_level = MR_PRINT_LEVEL_NONE,
                    !.q = MR_insert_line_at_head(s.q, Line(<<W.retry, Opt("o")>>))])
             ELSE Keep(s1, "retry problem")

MR_trace_cmd_printlevel(words, s, ev, x) ==
    IF Len(words) = 2
    THEN IF words[2] = W.none
         THEN Keep([s EXCEPT !.MR_default_print_level = MR_PRINT_LEVEL_NONE],
                   "none")
         ELSE IF words[2] = W.some
         THEN Keep([s EXCEPT !.MR_default_print_level = MR_PRINT_LEVEL_SOME],
                   "none")
         ELSE IF words[2] = W.all
         THEN Keep([s EXCEPT !.MR_default_print_level = MR_PRINT_LEVEL_ALL],
                   "none")
         ELSE Usage(s)
    ELSE IF Len(words) = 1
    THEN IF s.MR_default_print_level \in
                {MR_PRINT_LEVEL_NONE, MR_PRINT_LEVEL_SOME, MR_PRINT_LEVEL_ALL}
         THEN Keep(s, "none")
         ELSE Keep([s EXCEPT !.MR_default_print_level = MR_PRINT_LEVEL_SOME],
                   "none")
    ELSE Usage(s)

MR_trace_cmd_scroll(words, s, ev, x) ==
    IF Len(words) = 2
    THEN IF words[2] = W.off
         THEN Keep([s EXCEPT !.MR_scroll_control = FALSE], "none")
         ELSE IF words[2] = W.on
         THEN Keep([s EXCEPT !.MR_scroll_control = TRUE], "none")
         ELSE IF MR_trace_is_natural_number(words[2])
         THEN Keep([s EXCEPT !.MR_scroll_limit = NaturalValue(words[2])],
                   "none")
         ELSE Usage(s)
    ELSE IF Len(words) = 1 THEN Keep(s, "none")
    ELSE Usage(s)

MR_trace_cmd_echo(words, s, ev, x) ==
    IF Len(words) = 2
    THEN IF words[2] = W.off
         THEN Keep([s EXCEPT !.MR_echo_commands = FALSE], "none")
         ELSE IF words[2] = W.on
         THEN Keep([s EXCEPT !.MR_echo_commands = TRUE], "none")
         ELSE Usage(s)
    ELSE IF Len(words) = 1 THEN Keep(s, "none")
    ELSE Usage(s)

MR_trace_cmd_alias(words, s, ev, x) ==
    IF Len(words) = 1 THEN Keep(s, "none")
    ELSE IF Len(words) = 2 THEN Keep(s, "none")
    ELSE IF MR_trace_valid_command(words[3]) # 0
    THEN Keep([s EXCEPT !.aliases =
                    MR_trace_add_alias(s.aliases, words[2],
                                       SubSeq(words, 3, Len(words)))],
              "none")
    ELSE Keep(s, "not a valid command")

MR_trace_cmd_unalias(words, s, ev, x) ==
    IF Len(words) = 2
    THEN IF MR_trace_lookup_alias(s.aliases, words[2])
         THEN Keep([s EXCEPT !.aliases =
                        MR_trace_remove_alias(s.aliases, words[2])], "none")
         ELSE Keep(s, "Alias cannot be removed, since it does not exist")
    ELSE Usage(s)

RECURSIVE IgnoreOptLoop(_)
IgnoreOptLoop(codes) ==
    IF codes = <<>> THEN TRUE
    ELSE IF Head(codes) = "i" THEN IgnoreOptLoop(Tail(codes))
    ELSE FALSE

MR_trace_ignore_opts ==
    [name \in {<<"i", "g", "n", "o", "r", "e", "-",
                 "e", "r", "r", "o", "r", "s">>} |-> "i"]

MR_trace_options_ignore(words) ==
    LET g == GetOpt(words, {"i"}, MR_trace_ignore_opts) IN
    [ok |-> IgnoreOptLoop(g.codes), words |-> g.words,
     ignore_errors |-> IgnoreOptLoop(g.codes) /\ g.codes # <<>>]

\* x.file is what fopen finds for the file named by the command
MR_trace_cmd_source(words, s, ev, x) ==
    LET o == MR_trace_options_ignore(words) IN
    IF ~o.ok THEN Usage(s)
    ELSE IF Len(o.words) = 2
    THEN Keep([s EXCEPT !.q = MR_trace_source(s.q, x.file)],
              IF x.file.opened \/ o.ignore_errors THEN "none"
              ELSE "cannot open file")
    ELSE Usage(s)

-----------------------------------------------------------------------------
(* Breakpoints.  The table MR_spy_points is a sequence of slots, slot n of  *)
(* the C array being element n + 1; MR_spy_point_next is its length.  The   *)
(* table itself belongs to mercury_trace_spy.c: its functions are modelled  *)
(* from what the handlers expect of them.                                   *)

\* the test every handler makes before it uses slot n
SpyExists(g, n) ==
    /\ 0 <= n
    /\ n < Len(g.MR_spy_points)
    /\ g.MR_spy_points[n + 1].spy_exists

\* MR_add_proc_spy_point and MR_add_line_spy_point: a new slot at the end
\* of the table, which becomes the most recent one
MR_add_spy_point(g, when, action, what, print_list) ==
    [g EXCEPT !.MR_spy_points =
                    Append(@, [spy_exists |-> TRUE, spy_enabled |-> TRUE,
                               spy_when |-> when, spy_action |-> action,
                               spy_what |-> what, spy_cond |-> <<>>,
                               spy_print_list |-> print_list,
                               spy_ignore_count |-> 0]),
              !.MR_most_recent_spy_point = Len(g.MR_spy_points)]

\* the loop over the table that `enable *', `disable *' and `delete *' run
AllExisting(g, field, value) ==
    [g EXCEPT !.MR_spy_points =
        [i \in 1..Len(@) |->
            IF @[i].spy_exists THEN [@[i] EXCEPT ![field] = value]
            ELSE @[i]]]

\* the body that MR_trace_cmd_enable, MR_trace_cmd_disable and
\* MR_trace_cmd_delete have in common: they assign value to field
\* (spy_enabled, or spy_exists, which MR_delete_spy_point clears)
EnableDisableDelete(words, s, field, value) ==
    LET g == s.globals IN
    IF Len(words) = 2 /\ MR_trace_is_natural_number(words[2])
    THEN LET n == NaturalValue(words[2]) IN
         IF SpyExists(g, n)
         THEN Keep([s EXCEPT
                        !.globals.MR_spy_points[n + 1][field] = value],
                   "none")
         ELSE Keep(s, "break point does not exist")
    ELSE IF Len(words) = 2 /\ words[2] = <<"*">>
    THEN IF \E i \in 1..Len(g.MR_spy_points) : g.MR_spy_points[i].spy_exists
         THEN Keep([s EXCEPT !.globals = AllExisting(g, field, value)], "none")
         ELSE Keep(s, "There are no break points")
    ELSE IF Len(words) = 1
    THEN IF SpyExists(g, g.MR_most_recent_spy_point)
         THEN Keep([s EXCEPT
                        !.globals.MR_spy_points
                            [g.MR_most_recent_spy_point + 1][field] = value],
                   "none")
         ELSE Keep(s, "there is no most recent break point")
    ELSE Usage(s)

\* a disable that disables every breakpoint when it is given an index
DisableAll(words, s, ev, x) ==
    IF Len(words) = 2 /\ MR_trace_is_natural_number(words[2])
    THEN EnableDisableDelete(<<words[1], <<"*">>>>, s, "spy_enabled", FALSE)
    ELSE EnableDisableDelete(words, s, "spy_enabled", FALSE)

MR_trace_cmd_enable(words, s, ev, x) ==
    EnableDisableDelete(words, s, "spy_enabled", TRUE)

MR_trace_cmd_disable(words, s, ev, x) ==
    EnableDisableDelete(words, s, "spy_enabled", FALSE)

\* MR_print_spy_point is called between two assignments that make the
\* slot look deleted while it is printed; MR_delete_spy_point then
\* deletes it
MR_trace_cmd_delete(words, s, ev, x) ==
    EnableDisableDelete(words, s, "spy_exists", FALSE)

\* MR_trace_options_ignore_count knows -E and -I only, which take an
\* argument; options with arguments are not modelled, so any option word
\* is refused here.  x.n is the value of the local n that the loop of
\* `ignore *' passes without having set it.
MR_trace_cmd_ignore(words, s, ev, x) ==
    LET g == s.globals
        o == GetOpt(words, {}, NoLongOpts)
    IN  IF o.codes # <<>> THEN Usage(s)
        ELSE IF Len(o.words) = 2 /\ MR_trace_is_natural_number(o.words[2])
        THEN LET n == NaturalValue(o.words[2]) IN
             IF SpyExists(g, n)
             THEN Keep([s EXCEPT
                    !.globals.MR_spy_points[n + 1].spy_ignore_count = 1],
                    "none")
             ELSE Keep(s, "break point does not exist")
        ELSE IF Len(o.words) = 2 /\ o.words[2] = <<"*">>
        THEN IF \E i \in 1..Len(g.MR_spy_points) :
                    g.MR_spy_points[i].spy_exists
             THEN IF 0 <= x.n /\ x.n < Len(g.MR_spy_points)
                  THEN Keep([s EXCEPT
                        !.globals.MR_spy_points[x.n + 1].spy_ignore_count = 1],
                        "none")
                  ELSE [s EXCEPT !.after = "crash"]
             ELSE Keep(s, "There are no break points")
        ELSE IF Len(o.words) = 1
        THEN IF SpyExists(g, g.MR_most_recent_spy_point)
             THEN Keep([s EXCEPT
                    !.globals.MR_spy_points
                        [g.MR_most_recent_spy_point + 1].spy_ignore_count = 1],
                    "none")
             ELSE Keep(s, "there is no most recent break point")
        ELSE Usage(s)

\* MR_trace_options_condition, for the words `-n N' at the front or no
\* option at all: whether the options are fine, the number of the
\* breakpoint and the words left
MR_trace_options_condition(break_num, words) ==
    IF Len(words) >= 3 /\ words[2] = Opt("n")
    THEN [ok |-> MR_trace_is_natural_number(words[3]),
          break_num |-> IF MR_trace_is_natural_number(words[3])
                        THEN NaturalValue(words[3]) ELSE break_num,
          words |-> <<words[1]>> \o SubSeq(words, 4, Len(words))]
    ELSE [ok |-> \A i \in 2..Len(words) : ~IsOptionWord(words[i]),
          break_num |-> break_num, words |-> words]

\* condition that frees the old condition of the breakpoint before it
\* looks at the test and the term
ConditionFreesFirst(words, s, ev, x) ==
    LET g == s.globals
        o == MR_trace_options_condition(g.MR_most_recent_spy_point, words)
        break_num == o.break_num
        rest == o.words
        freed == [s EXCEPT !.globals.MR_spy_points[break_num + 1].spy_cond =
                                <<>>]
    IN  IF ~o.ok THEN Usage(s)
        ELSE IF Len(rest) < 4 THEN Usage(s)
        ELSE IF break_num < 0 THEN Keep(s, "There is no breakpoint")
        ELSE IF ~(break_num < Len(g.MR_spy_points))
        THEN Keep(s, "There is no breakpoint N")
        ELSE IF ~g.MR_spy_points[break_num + 1].spy_exists
        THEN Keep(s, "Breakpoint N has been deleted")
        ELSE IF x.cond = "problem" THEN Keep(s, "mdb: what: problem")
        ELSE IF rest[3] \notin {<<"=">>, <<"=", "=">>, <<"!", "=">>,
                                <<ESCAPE_CHAR, "=">>}
        THEN Keep(freed, "invalid condition: should be = or !=")
        ELSE IF x.cond = "NULL" THEN Keep(freed, "syntax error in term")
        ELSE IF x.cond = "rest" THEN Keep(freed, "syntax error after term")
        ELSE Keep([s EXCEPT !.globals.MR_spy_points[break_num + 1].spy_cond =
                        <<[cond_what_string |-> rest[2],
                           cond_test |-> IF rest[3] \in {<<"=">>, <<"=", "=">>}
                                         THEN "MR_SPY_TEST_EQUAL"
                                         ELSE "MR_SPY_TEST_NOT_EQUAL",
                           cond_term_string |-> rest[4]]>>],
                  "none")

MR_trace_cmd_condition(words, s, ev, x) ==
    LET g == s.globals
        o == MR_trace_options_condition(g.MR_most_recent_spy_point, words)
        break_num == o.break_num
        rest == o.words
    IN  IF ~o.ok THEN Usage(s)
        ELSE IF Len(rest) < 4 THEN Usage(s)
        ELSE IF break_num < 0 THEN Keep(s, "There is no breakpoint")
        ELSE IF ~(break_num < Len(g.MR_spy_points))
        THEN Keep(s, "There is no breakpoint N")
        ELSE IF ~g.MR_spy_points[break_num + 1].spy_exists
        THEN Keep(s, "Breakpoint N has been deleted")
        ELSE IF x.cond = "problem" THEN Keep(s, "mdb: what: problem")
        ELSE IF rest[3] \notin {<<"=">>, <<"=", "=">>, <<"!", "=">>,
                                <<ESCAPE_CHAR, "=">>}
        THEN Keep(s, "invalid condition: should be = or !=")
        ELSE IF x.cond = "NULL" THEN Keep(s, "syntax error in term")
        ELSE IF x.cond = "rest" THEN Keep(s, "syntax error after term")
        ELSE Keep([s EXCEPT !.globals.MR_spy_points[break_num + 1].spy_cond =
                        <<[cond_what_string |-> rest[2],
                           cond_test |-> IF rest[3] \in {<<"=">>, <<"=", "=">>}
                                         THEN "MR_SPY_TEST_EQUAL"
                                         ELSE "MR_SPY_TEST_NOT_EQUAL",
                           cond_term_string |-> rest[4]]>>],
                  "none")

\* `break_print N none' uses slot N without a test: past the end of the
\* table the pointer it follows is not one the table has set, and x.fault
\* tells whether the process takes a fault there or goes on
MR_trace_cmd_break_print(words, s, ev, x) ==
    LET g == s.globals
        o == GetOpt(words, {"e", "n", "f", "r", "v", "p"}, NoLongOpts)
    IN  IF \E i \in 1..Len(o.codes) : o.codes[i] = "?" THEN Usage(s)
        ELSE IF Len(o.words) > 2 /\ MR_trace_is_natural_number(o.words[2])
        THEN LET n == NaturalValue(o.words[2]) IN
             IF Len(o.words) = 3 /\ o.words[3] = W.none
             THEN IF n < Len(g.MR_spy_points)
                  THEN Keep([s EXCEPT
                        !.globals.MR_spy_points[n + 1].spy_print_list = <<>>],
                        "none")
                  ELSE IF x.fault THEN [s EXCEPT !.after = "crash"]
                  ELSE Keep(s, "none")
             ELSE IF SpyExists(g, n)
             THEN Keep([s EXCEPT
                    !.globals.MR_spy_points[n + 1].spy_print_list =
                        IF \E i \in 1..Len(o.codes) : o.codes[i] = "e"
                        THEN @ \o SubSeq(o.words, 3, Len(o.words))
                        ELSE SubSeq(o.words, 3, Len(o.words)) \o @],
                    "none")
             ELSE Keep(s, "break point does not exist")
        ELSE Usage(s)

\* the procedures of the program being debugged, by the specification that
\* MR_search_for_matching_procedures is given: p names one, m names two
MR_search_for_matching_procedures(spec) ==
    IF spec = <<"p">> THEN <<"p/1">>
    ELSE IF spec = <<"m">> THEN <<"m/1", "m/2">>
    ELSE <<>>

\* MR_parse_source_locn: file:line
MR_parse_source_locn(word) ==
    \E i \in 2..(Len(word) - 1) :
        /\ word[i] = ":"
        /\ MR_trace_is_natural_number(SubSeq(word, i + 1, Len(word)))

\* MR_parse_proc_spec: a word that is neither a number nor file:line
MR_parse_proc_spec(word) ==
    /\ ~MR_trace_is_natural_number(word)
    /\ ~MR_parse_source_locn(word)

RECURSIVE BreakOptLoop(_, _)
BreakOptLoop(o, codes) ==
    IF codes = <<>> THEN o
    ELSE IF Head(codes) = "a"
    THEN BreakOptLoop([o EXCEPT !.when = "MR_SPY_ALL"], Tail(codes))
    ELSE IF Head(codes) = "e"
    THEN BreakOptLoop([o EXCEPT !.when = "MR_SPY_ENTRY"], Tail(codes))
    ELSE IF Head(codes) = "i"
    THEN BreakOptLoop([o EXCEPT !.when = "MR_SPY_INTERFACE"], Tail(codes))
    ELSE IF Head(codes) = "n" THEN BreakOptLoop(o, Tail(codes))
    ELSE IF Head(codes) = "A"
    THEN BreakOptLoop([o EXCEPT !.multi_match = "MR_MULTIMATCH_ALL"],
                      Tail(codes))
    ELSE IF Head(codes) = "O"
    THEN BreakOptLoop([o EXCEPT !.multi_match = "MR_MULTIMATCH_ONE"],
                      Tail(codes))
    ELSE IF Head(codes) = "P"
    THEN BreakOptLoop([o EXCEPT !.action = "MR_SPY_PRINT"], Tail(codes))
    ELSE IF Head(codes) = "S"
    THEN BreakOptLoop([o EXCEPT !.action = "MR_SPY_STOP"], Tail(codes))
    ELSE [o EXCEPT !.ok = FALSE]

\* the options -E, -I and -p, which take an argument, are not modelled
MR_trace_options_when_action_multi_ignore(when, words) ==
    LET g == GetOpt(words, {"A", "O", "P", "S", "a", "e", "i", "n"},
                    NoLongOpts)
    IN  BreakOptLoop([ok |-> TRUE, when |-> when, action |-> "MR_SPY_STOP",
                      multi_match |-> "MR_MULTIMATCH_ASK", words |-> g.words],
                     g.codes)

\* a break that puts a breakpoint on the first match only when it is
\* told to put one on every match
BreakAllAddsFirst(g, o, matches, i) ==
    MR_add_spy_point(g, o.when, o.action, matches[i], <<>>)

\* the loop that adds a spy point for each of the matches from i on
RECURSIVE AddMatches(_, _, _, _)
AddMatches(g, o, matches, i) ==
    IF i > Len(matches) THEN g
    ELSE AddMatches(MR_add_spy_point(g, o.when, o.action, matches[i], <<>>),
                    o, matches, i + 1)

\* MR_trace_cmd_break.  x.reply is the line read in reply to the question
\* `Which do you want to put a breakpoint on', UninitWord as long as the
\* question has not been put: the handler then stops at the question
\* (after = "which").  x.context is whether MR_find_context finds the file
\* of the event.
MR_trace_cmd_break(words, s, ev, x) ==
    LET g == s.globals IN
    IF Len(words) = 2 /\ words[2] = W.info
    THEN IF \E i \in 1..Len(g.MR_spy_points) : g.MR_spy_points[i].spy_exists
         THEN Keep(s, "none")
         ELSE Keep(s, "There are no break points")
    ELSE
    LET o == MR_trace_options_when_action_multi_ignore(
                g.MR_default_breakpoint_scope, words)
    IN  IF ~o.ok THEN Usage(s)
        ELSE IF Len(o.words) = 2 /\ o.words[2] = W.here
        THEN Keep([s EXCEPT !.globals =
                        MR_add_spy_point(g, "MR_SPY_SPECIFIC", o.action,
                                         "here", <<>>)], "none")
        ELSE IF Len(o.words) = 2 /\ MR_parse_proc_spec(o.words[2])
        THEN LET matches == MR_search_for_matching_procedures(o.words[2]) IN
             IF Len(matches) = 0
             THEN Keep(s, "there is no such procedure")
             ELSE IF Len(matches) = 1
             THEN Keep([s EXCEPT !.globals =
                            MR_add_spy_point(g, o.when, o.action, matches[1],
                                             <<>>)], "none")
             ELSE IF o.multi_match = "MR_MULTIMATCH_ALL"
             THEN Keep([s EXCEPT !.globals = AddMatches(g, o, matches, 1)],
                       "none")
             ELSE IF o.multi_match = "MR_MULTIMATCH_ONE"
             THEN Keep(s, "Ambiguous procedure specification")
             ELSE IF x.reply = UninitWord THEN [s EXCEPT !.after = "which"]
             ELSE IF x.reply = NullLine THEN Keep(s, "none of them")
             ELSE IF x.reply = <<"*">>
             THEN Keep([s EXCEPT !.globals = AddMatches(g, o, matches, 1)],
                       "none")
             ELSE IF MR_trace_is_natural_number(x.reply)
             THEN IF NaturalValue(x.reply) < Len(matches)
                  THEN Keep([s EXCEPT !.globals =
                                MR_add_spy_point(g, o.when, o.action,
                                    matches[NaturalValue(x.reply) + 1], <<>>)],
                            "none")
                  ELSE Keep(s, "no such match")
             ELSE Keep(s, "none of them")
        ELSE IF Len(o.words) = 2 /\ MR_parse_source_locn(o.words[2])
        THEN Keep([s EXCEPT !.globals =
                        MR_add_spy_point(g, "MR_SPY_LINENO", o.action,
                                         o.words[2], <<>>)], "none")
        ELSE IF Len(o.words) = 2 /\ MR_trace_is_natural_number(o.words[2])
        THEN IF x.context
             THEN Keep([s EXCEPT !.globals =
                            MR_add_spy_point(g, "MR_SPY_LINENO", o.action,
                                             o.words[2], <<>>)], "none")
             ELSE [s EXCEPT !.after = "crash",
                            !.msg = "cannot find current filename"]
        ELSE Usage(s)

\* MR_fatal_error: the message is printed and the process is aborted
Fatal(s, msg) == [s EXCEPT !.after = "crash", !.msg = msg]

\* context that takes an argument it does not know for nowhere
ContextUnknownIsNowhere(words, s, ev, x) ==
    IF Len(words) = 2
    THEN Keep([s EXCEPT !.globals.MR_context_position =
                    IF words[2] = W.before THEN "MR_CONTEXT_BEFORE"
                    ELSE IF words[2] = W.after THEN "MR_CONTEXT_AFTER"
                    ELSE IF words[2] = W.prevline THEN "MR_CONTEXT_PREVLINE"
                    ELSE IF words[2] = W.nextline THEN "MR_CONTEXT_NEXTLINE"
                    ELSE "MR_CONTEXT_NOWHERE"],
              IF words[2] \in {W.none, W.before, W.after, W.prevline,
                               W.nextline}
              THEN "none" ELSE "usage error")
    ELSE IF Len(words) = 1 THEN Keep(s, "none")
    ELSE Usage(s)

MR_trace_cmd_context(words, s, ev, x) ==
    IF Len(words) = 2
    THEN IF words[2] \in {W.none, W.before, W.after, W.prevline, W.nextline}
         THEN Keep([s EXCEPT !.globals.MR_context_position =
                        IF words[2] = W.none THEN "MR_CONTEXT_NOWHERE"
                        ELSE IF words[2] = W.before THEN "MR_CONTEXT_BEFORE"
                        ELSE IF words[2] = W.after THEN "MR_CONTEXT_AFTER"
                        ELSE IF words[2] = W.prevline
                        THEN "MR_CONTEXT_PREVLINE"
                        ELSE "MR_CONTEXT_NEXTLINE"],
                   "none")
         ELSE Usage(s)
    ELSE IF Len(words) = 1
    THEN IF s.globals.MR_context_position \in
                {"MR_CONTEXT_NOWHERE", "MR_CONTEXT_BEFORE", "MR_CONTEXT_AFTER",
                 "MR_CONTEXT_PREVLINE", "MR_CONTEXT_NEXTLINE"}
         THEN Keep(s, "none")
         ELSE Fatal(s, "invalid MR_context_position")
    ELSE Usage(s)

MR_trace_cmd_goal_paths(words, s, ev, x) ==
    IF Len(words) = 2
    THEN IF words[2] = W.off
         THEN Keep([s EXCEPT !.globals.MR_print_goal_paths = FALSE], "none")
         ELSE IF words[2] = W.on
         THEN Keep([s EXCEPT !.globals.MR_print_goal_paths = TRUE], "none")
         ELSE Usage(s)
    ELSE IF Len(words) = 1 THEN Keep(s, "none")
    ELSE Usage(s)

MR_trace_cmd_scope(words, s, ev, x) ==
    IF Len(words) = 2
    THEN IF words[2] \in {W.all, W.interface, W.entry}
         THEN Keep([s EXCEPT !.globals.MR_default_breakpoint_scope =
                        IF words[2] = W.all THEN "MR_SPY_ALL"
                        ELSE IF words[2] = W.interface THEN "MR_SPY_INTERFACE"
                        ELSE "MR_SPY_ENTRY"],
                   "none")
         ELSE Usage(s)
    ELSE IF Len(words) = 1
    THEN IF s.globals.MR_default_breakpoint_scope \in
                {"MR_SPY_ALL", "MR_SPY_INTERFACE", "MR_SPY_ENTRY"}
         THEN Keep(s, "none")
         ELSE Fatal(s, "invalid MR_default_breakpoint_scope")
    ELSE Usage(s)

\* the decimal digits that %d prints for n >= 0
RECURSIVE FormatInt(_)
FormatInt(n) ==
    IF n < 10 THEN <<Digits[n + 1]>>
    ELSE FormatInt(n \div 10) \o <<Digits[(n % 10) + 1]>>

\* the lines that MR_trace_cmd_save prints for the parameters of the session
\* (the aliases, the breakpoints and the parameters of the browser, which
\* functions of other files print, are left out)
SavedLines(s) ==
    << Line(<<W.printlevel,
              IF s.MR_default_print_level = MR_PRINT_LEVEL_NONE THEN W.none
              ELSE IF s.MR_default_print_level = MR_PRINT_LEVEL_SOME
              THEN W.some ELSE W.all>>),
       Line(<<W.echo, IF s.MR_echo_commands THEN W.on ELSE W.off>>),
       Line(<<W.scroll, IF s.MR_scroll_control THEN W.on ELSE W.off>>),
       Line(<<W.scroll, FormatInt(s.MR_scroll_limit)>>),
       Line(<<W.context,
              IF s.globals.MR_context_position = "MR_CONTEXT_NOWHERE"
              THEN W.nowhere
              ELSE IF s.globals.MR_context_position = "MR_CONTEXT_AFTER"
              THEN W.after
              ELSE IF s.globals.MR_context_position = "MR_CONTEXT_BEFORE"
              THEN W.before
              ELSE IF s.globals.MR_context_position = "MR_CONTEXT_PREVLINE"
              THEN W.prevline ELSE W.nextline>>),
       Line(<<W.goal_paths,
              IF s.globals.MR_print_goal_paths THEN W.on ELSE W.off>>),
       Line(<<W.scope,
              IF s.globals.MR_default_breakpoint_scope = "MR_SPY_ALL"
              THEN W.all
              ELSE IF s.globals.MR_default_breakpoint_scope =
                        "MR_SPY_INTERFACE"
              THEN W.interface ELSE W.entry>>) >>

\* saved is what the file holds when the command has written it
\* table_io that starts and stops the tabling in whatever phase it is
TableIoAnyPhase(words, s, ev, x) ==
    LET g == s.globals
        phase == g.MR_io_tabling_phase
    IN  IF Len(words) = 2 /\ words[2] = W.allow
        THEN Keep([s EXCEPT !.globals.MR_io_tabling_allowed = TRUE], "none")
        ELSE IF Len(words) = 2 /\ words[2] \in {W.start, W.begin}
        THEN IF ~g.MR_io_tabling_allowed
             THEN Keep(s, "This executable wasn't prepared for I/O tabling")
             ELSE Keep([s EXCEPT !.globals.MR_io_tabling_phase =
                            "MR_IO_TABLING_DURING"],
                       "I/O tabling started")
        ELSE IF Len(words) = 2 /\ words[2] \in {W.stop, W.end}
        THEN IF ~g.MR_io_tabling_allowed
             THEN Keep(s, "This executable wasn't prepared for I/O tabling")
             ELSE Keep([s EXCEPT !.globals.MR_io_tabling_phase =
                            "MR_IO_TABLING_AFTER"],
                       "I/O tabling stopped")
        ELSE IF Len(words) = 1 \/ (Len(words) = 2 /\ words[2] = W.stats)
        THEN Keep(s, "none")
        ELSE Usage(s)

MR_trace_cmd_table_io(words, s, ev, x) ==
    LET g == s.globals
        phase == g.MR_io_tabling_phase
        known == phase \in {"MR_IO_TABLING_BEFORE", "MR_IO_TABLING_DURING",
                            "MR_IO_TABLING_AFTER"}
        unprepared ==
            Keep(s, "This executable wasn't prepared for I/O tabling")
        impossible == Fatal(s, "I/O tabling in impossible phase")
    IN  IF Len(words) = 1
        THEN IF ~g.MR_io_tabling_allowed THEN unprepared
             ELSE IF phase = "MR_IO_TABLING_BEFORE"
             THEN Keep(s, "I/O tabling has not yet started")
             ELSE IF phase = "MR_IO_TABLING_DURING"
             THEN Keep(s, "I/O tabling has started")
             ELSE IF phase = "MR_IO_TABLING_AFTER"
             THEN Keep(s, "I/O tabling has stopped")
             ELSE impossible
        ELSE IF Len(words) = 2 /\ words[2] \in {W.start, W.begin}
        THEN IF ~g.MR_io_tabling_allowed THEN unprepared
             ELSE IF phase = "MR_IO_TABLING_BEFORE"
             THEN Keep([s EXCEPT !.globals.MR_io_tabling_phase =
                            "MR_IO_TABLING_DURING"],
                       "I/O tabling started")
             ELSE IF phase = "MR_IO_TABLING_DURING"
             THEN Keep(s, "I/O tabling has already started")
             ELSE IF phase = "MR_IO_TABLING_AFTER"
             THEN Keep(s, "I/O tabling has already stopped")
             ELSE impossible
        ELSE IF Len(words) = 2 /\ words[2] \in {W.stop, W.end}
        THEN IF ~g.MR_io_tabling_allowed THEN unprepared
             ELSE IF phase = "MR_IO_TABLING_BEFORE"
             THEN Keep(s, "I/O tabling has not yet started")
             ELSE IF phase = "MR_IO_TABLING_DURING"
             THEN Keep([s EXCEPT !.globals.MR_io_tabling_phase =
                            "MR_IO_TABLING_AFTER"],
                       "I/O tabling stopped")
             ELSE IF phase = "MR_IO_TABLING_AFTER"
             THEN Keep(s, "I/O tabling has already stopped")
             ELSE impossible
        ELSE IF Len(words) = 2 /\ words[2] = W.stats
        THEN IF ~g.MR_io_tabling_allowed THEN unprepared
             ELSE Keep(s, "stats")
        ELSE IF Len(words) = 2 /\ words[2] = W.allow
        THEN Keep([s EXCEPT !.globals.MR_io_tabling_allowed = TRUE], "none")
        ELSE Usage(s)

MR_trace_cmd_save(words, s, ev, x) ==
    IF Len(words) = 2
    THEN IF ~x.fopen THEN Keep(s, "error opening")
         ELSE IF s.globals.MR_default_breakpoint_scope \in
                    {"MR_SPY_LINENO", "MR_SPY_SPECIFIC"}
         THEN Fatal(s, "save cmd: invalid default scope")
         ELSE Keep([s EXCEPT !.saved = SavedLines(s)], "none")
    ELSE Usage(s)

RECURSIVE ConfirmedOptLoop(_, _)
ConfirmedOptLoop(confirmed, codes) ==
    IF codes = <<>> THEN [ok |-> TRUE, confirmed |-> confirmed]
    ELSE IF Head(codes) \in {"n", "N"}
    THEN ConfirmedOptLoop(FALSE, Tail(codes))
    ELSE IF Head(codes) \in {"y", "Y"}
    THEN ConfirmedOptLoop(TRUE, Tail(codes))
    ELSE [ok |-> FALSE, confirmed |-> confirmed]

MR_trace_options_confirmed(words) ==
    LET g == GetOpt(words, {"N", "Y", "n", "y"}, NoLongOpts)
        r == ConfirmedOptLoop(FALSE, g.codes)
    IN  [ok |-> r.ok, confirmed |-> r.confirmed, words |-> g.words]

\* the part of MR_trace_cmd_quit up to the question; QuitReply is the rest
MR_trace_cmd_quit(words, s, ev, x) ==
    LET o == MR_trace_options_confirmed(words) IN
    IF ~o.ok THEN Usage(s)
    ELSE IF Len(o.words) = 1
    THEN IF ~o.confirmed
         THEN [s EXCEPT !.after = "confirm"]
         ELSE [s EXCEPT !.after = "exit"]
    ELSE Usage(s)

RECURSIVE FirstNonSpace(_, _)
FirstNonSpace(line, i) ==
    IF i <= Len(line) /\ MR_isspace(line[i]) THEN FirstNonSpace(line, i + 1)
    ELSE i

\* the char at index i of the C string line (NUL at its end)
CharAt(line, i) == IF i <= Len(line) THEN line[i] ELSE NUL

\* QuitReply that looks at the first character of the reply, blank or not
QuitReplyFirstChar(line2) ==
    IF line2 = NullLine THEN TRUE
    ELSE CharAt(line2, 1) \in {"y", "Y"}

\* whether the reply line2 to the quit question confirms it
QuitReply(line2) ==
    IF line2 = NullLine THEN TRUE
    ELSE CharAt(line2, FirstNonSpace(line2, 1)) \in {"y", "Y"}

-----------------------------------------------------------------------------
(* Dispatch *)

CallHandler(function, words, s, ev, x) ==
    CASE function = "MR_trace_cmd_step" -> MR_trace_cmd_step(words, s, ev, x)
      [] function = "MR_trace_cmd_goto" -> MR_trace_cmd_goto(words, s, ev, x)
      [] function = "MR_trace_cmd_next" -> MR_trace_cmd_next(words, s, ev, x)
      [] function = "MR_trace_cmd_finish" ->
            MR_trace_cmd_finish(words, s, ev, x)
      [] function = "MR_trace_cmd_fail" -> MR_trace_cmd_fail(words, s, ev, x)
      [] function = "MR_trace_cmd_exception" ->
            MR_trace_cmd_exception(words, s, ev, x)
      [] function = "MR_trace_cmd_return" ->
            MR_trace_cmd_return(words, s, ev, x)
      [] function = "MR_trace_cmd_forward" ->
            MR_trace_cmd_forward(words, s, ev, x)
      [] function = "MR_trace_cmd_mindepth" ->
            MR_trace_cmd_mindepth(words, s, ev, x)
      [] function = "MR_trace_cmd_maxdepth" ->
            MR_trace_cmd_maxdepth(words, s, ev, x)
      [] function = "MR_trace_cmd_continue" ->
            MR_trace_cmd_continue(words, s, ev, x)
      [] function = "MR_trace_cmd_retry" -> MR_trace_cmd_retry(words, s, ev, x)
      [] function = "MR_trace_cmd_printlevel" ->
            MR_trace_cmd_printlevel(words, s, ev, x)
      [] function = "MR_trace_cmd_scroll" ->
            MR_trace_cmd_scroll(words, s, ev, x)
      [] function = "MR_trace_cmd_echo" -> MR_trace_cmd_echo(words, s, ev, x)
      [] function = "MR_trace_cmd_alias" -> MR_trace_cmd_alias(words, s, ev, x)
      [] function = "MR_trace_cmd_unalias" ->
            MR_trace_cmd_unalias(words, s, ev, x)
      [] function = "MR_trace_cmd_source" ->
            MR_trace_cmd_source(words, s, ev, x)
      [] function = "MR_trace_cmd_quit" -> MR_trace_cmd_quit(words, s, ev, x)
      [] function = "MR_trace_cmd_context" ->
            MR_trace_cmd_context(words, s, ev, x)
      [] function = "MR_trace_cmd_goal_paths" ->
            MR_trace_cmd_goal_paths(words, s, ev, x)
      [] function = "MR_trace_cmd_scope" -> MR_trace_cmd_scope(words, s, ev, x)
      [] function = "MR_trace_cmd_save" -> MR_trace_cmd_save(words, s, ev, x)
      [] function = "MR_trace_cmd_break" -> MR_trace_cmd_break(words, s, ev, x)
      [] function = "MR_trace_cmd_condition" ->
            MR_trace_cmd_condition(words, s, ev, x)
      [] function = "MR_trace_cmd_ignore" ->
            MR_trace_cmd_ignore(words, s, ev, x)
      [] function = "MR_trace_cmd_break_print" ->
            MR_trace_cmd_break_print(words, s, ev, x)
      [] function = "MR_trace_cmd_enable" ->
            MR_trace_cmd_enable(words, s, ev, x)
      [] function = "MR_trace_cmd_disable" ->
            MR_trace_cmd_disable(words, s, ev, x)
      [] function = "MR_trace_cmd_delete" ->
            MR_trace_cmd_delete(words, s, ev, x)
      [] function = "MR_trace_cmd_table_io" ->
            MR_trace_cmd_table_io(words, s, ev, x)
      \* a call through a null function pointer: the process takes a fault
      [] OTHER -> [s EXCEPT !.after = "crash"]

\* a dispatcher that ends the interaction on a word it does not know
HandleCmdUnknownStops(words, s, ev, x) ==
    LET cmd_info == MR_trace_valid_command(words[1]) IN
    IF cmd_info # 0
    THEN CallHandler(MR_trace_command_infos[cmd_info].MR_cmd_function, words,
                     [s EXCEPT !.name =
                                 MR_trace_command_infos[cmd_info].MR_cmd_name,
                               !.function =
                                 MR_trace_command_infos[cmd_info].MR_cmd_function],
                     ev, x)
    ELSE Stop([s EXCEPT !.msg = "Unknown command"])

MR_trace_handle_cmd(words, s, ev, x) ==
    LET cmd_info == MR_trace_valid_command(words[1]) IN
    IF cmd_info # 0
    THEN CallHandler(MR_trace_command_infos[cmd_info].MR_cmd_function, words,
                     [s EXCEPT !.name =
                                 MR_trace_command_infos[cmd_info].MR_cmd_name,
                               !.function =
                                 MR_trace_command_infos[cmd_info].MR_cmd_function],
                     ev, x)
    ELSE Keep(s, "Unknown command")

\* a command interpreter that goes on after a tokenizer error
DebugCmdProblemStops(line, s, ev, x) ==
    LET p == MR_trace_parse_line(line) IN
    IF p.problem # NULL THEN Stop([s EXCEPT !.msg = p.problem])
    ELSE LET words == MR_trace_expand_aliases(s.aliases, p.words)
             s1 == [s EXCEPT !.words = words]
         IN  IF Len(words) = 0 THEN Keep(s1, "none")
             ELSE MR_trace_handle_cmd(words, s1, ev, x)

MR_trace_debug_cmd(line, s, ev, x) ==
    LET p == MR_trace_parse_line(line) IN
    IF p.problem # NULL THEN Keep(s, p.problem)
    ELSE LET words == MR_trace_expand_aliases(s.aliases, p.words)
             s1 == [s EXCEPT !.words = words]
         IN  IF Len(words) = 0 THEN Keep(s1, "none")
             ELSE MR_trace_handle_cmd(words, s1, ev, x)

-----------------------------------------------------------------------------
(* The event report and its pager *)

\* a pager that stops only when the report itself would not fit
ScrollPromptsLate(len) ==
    MR_scroll_control /\ MR_scroll_next + len >= MR_scroll_limit

\* whether MR_trace_event_internal_report stops for the --more-- prompt
ScrollPrompts(len) ==
    MR_scroll_control /\ MR_scroll_next + len >= MR_scroll_limit - 1

\* a pager that takes the end of the input for the reply q
MoreReplyEofQuits(c, buf) ==
    IF buf = NullLine THEN [cmd |-> c, then |-> "interact", kind |-> "eof"]
    ELSE LET ch == CharAt(buf, FirstNonSpace(buf, 1)) IN
         IF ch = NUL THEN [cmd |-> c, then |-> "print", kind |-> "blank"]
         ELSE IF ch = "a"
         THEN [cmd |-> [c EXCEPT !.MR_trace_print_level = MR_PRINT_LEVEL_ALL],
               then |-> "print", kind |-> "level"]
         ELSE IF ch = "n"
         THEN [cmd |-> [c EXCEPT !.MR_trace_print_level = MR_PRINT_LEVEL_NONE],
               then |-> "print", kind |-> "level"]
         ELSE IF ch = "s"
         THEN [cmd |-> [c EXCEPT !.MR_trace_print_level = MR_PRINT_LEVEL_SOME],
               then |-> "print", kind |-> "level"]
         ELSE IF ch = "q"
         THEN [cmd |-> c, then |-> "interact", kind |-> "quit"]
         ELSE [cmd |-> c, then |-> "again", kind |-> "unknown"]

\* a pager that looks at the first character of the reply, blank or not
MoreReplyFirstChar(c, buf) ==
    IF buf = NullLine THEN [cmd |-> c, then |-> "print", kind |-> "eof"]
    ELSE LET ch == CharAt(buf, 1) IN
         IF ch = NUL \/ ch = SPACE
         THEN [cmd |-> c, then |-> "print", kind |-> "blank"]
         ELSE IF ch = "a"
         THEN [cmd |-> [c EXCEPT !.MR_trace_print_level = MR_PRINT_LEVEL_ALL],
               then |-> "print", kind |-> "level"]
         ELSE IF ch = "n"
         THEN [cmd |-> [c EXCEPT !.MR_trace_print_level = MR_PRINT_LEVEL_NONE],
               then |-> "print", kind |-> "level"]
         ELSE IF ch = "s"
         THEN [cmd |-> [c EXCEPT !.MR_trace_print_level = MR_PRINT_LEVEL_SOME],
               then |-> "print", kind |-> "level"]
         ELSE IF ch = "q"
         THEN [cmd |-> c, then |-> "interact", kind |-> "quit"]
         ELSE [cmd |-> c, then |-> "again", kind |-> "unknown"]

\* what the reply buf to the --more-- prompt does: the decision record it
\* leaves, and "print" (go on with the report), "interact" (call
\* MR_trace_event_internal with interactive true) or "again" (ask again)
MoreReply(c, buf) ==
    IF buf = NullLine THEN [cmd |-> c, then |-> "print", kind |-> "eof"]
    ELSE LET ch == CharAt(buf, FirstNonSpace(buf, 1)) IN
         IF ch = NUL THEN [cmd |-> c, then |-> "print", kind |-> "blank"]
         ELSE IF ch = "a"
         THEN [cmd |-> [c EXCEPT !.MR_trace_print_level = MR_PRINT_LEVEL_ALL],
               then |-> "print", kind |-> "level"]
         ELSE IF ch = "n"
         THEN [cmd |-> [c EXCEPT !.MR_trace_print_level = MR_PRINT_LEVEL_NONE],
               then |-> "print", kind |-> "level"]
         ELSE IF ch = "s"
         THEN [cmd |-> [c EXCEPT !.MR_trace_print_level = MR_PRINT_LEVEL_SOME],
               then |-> "print", kind |-> "level"]
         ELSE IF ch = "q"
         THEN [cmd |-> c, then |-> "interact", kind |-> "quit"]
         ELSE [cmd |-> c, then |-> "again", kind |-> "unknown"]

-----------------------------------------------------------------------------
(* First-use initialisation.  init is what the environment holds: the      *)
(* value of LINES (NullLine when unset) and, for each init file, whether   *)
(* it can be opened and its lines.                                         *)

MR_trace_internal_init_from_env(q, init) ==
    IF init.env.set THEN MR_trace_source(q, init.env) ELSE q

MR_trace_internal_init_from_local(q, init) ==
    IF init.local.opened
    THEN MR_trace_source_from_open_file(q, init.local.lines) ELSE q

MR_trace_internal_init_from_home_dir(q, init) ==
    IF ~init.home.set THEN q
    ELSE IF init.home.opened
    THEN MR_trace_source_from_open_file(q, init.home.lines) ELSE q

\* MR_trace_internal_ensure_init without its flag: every call initialises
EnsureInitEveryTime(i, init) ==
    [initialized |-> TRUE,
     MR_io_tabling_phase |-> "MR_IO_TABLING_BEFORE",
     MR_scroll_limit |->
         IF init.LINES # NullLine /\ MR_trace_is_natural_number(init.LINES)
         THEN NaturalValue(init.LINES) ELSE i.MR_scroll_limit,
     q |-> MR_trace_internal_init_from_env(
               MR_trace_internal_init_from_local(
                   MR_trace_internal_init_from_home_dir(i.q, init),
                   init),
               init)]

\* i is [initialized, q, MR_scroll_limit]
MR_trace_internal_ensure_init(i, init) ==
    IF ~i.initialized
    THEN [initialized |-> TRUE,
          MR_io_tabling_phase |-> "MR_IO_TABLING_BEFORE",
          MR_scroll_limit |->
              IF init.LINES # NullLine /\ MR_trace_is_natural_number(init.LINES)
              THEN NaturalValue(init.LINES) ELSE i.MR_scroll_limit,
          q |-> MR_trace_internal_init_from_env(
                    MR_trace_internal_init_from_local(
                        MR_trace_internal_init_from_home_dir(i.q, init),
                        init),
                    init)]
    ELSE i

-----------------------------------------------------------------------------
(* The environment of a session: what the terminal can deliver, the files  *)
(* on disk, the events the host reports.                                   *)

MaxTermLines == 2
MaxEvents == 2

NoFile == [set |-> FALSE, opened |-> FALSE, lines |-> <<>>]
Missing == [set |-> TRUE, opened |-> FALSE, lines |-> <<>>]
File(lines) == [set |-> TRUE, opened |-> TRUE, lines |-> lines]

\* the lines a user may type
TermLines ==
    { Line(<<W.step>>), Line(<<W.retry>>), Line(<<W.zz>>), <<>>,
      Line(<<W.NUMBER>>), Line(<<W.quit>>), Line(<<W.quit, Opt("y")>>),
      Line(<<W.alias, W.quit, W.echo>>), Line(<<W.source, W.f>>),
      Line(<<W.source, W.f>>) \o <<SEMI>> \o W.zz,
      W.zz \o <<ESCAPE_CHAR, SEMI, SINGLE_QUOTE_CHAR, SEMI, SINGLE_QUOTE_CHAR,
                SEMI>> \o W.step,
      W.zz \o <<ESCAPE_CHAR>>,
      W.a, W.q, W.y,
      Line(<<W.step, W.zz>>) }
    \cup { Line(<<w, Opt("x")>>) :
              w \in {W.step, W.goto, W.next, W.finish, W.fail, W.exception,
                     W.return, W.forward, W.mindepth, W.maxdepth, W.continue,
                     W.retry} }

\* the file that `source f' opens
SourceFiles ==
    { Missing,
      File(<<Line(<<W.echo, W.on>>) \o <<SEMI>> \o W.zz,
             W.zz \o <<ESCAPE_CHAR>>>>) }

\* the environment found at first use
InitConfigs ==
    { [LINES |-> NullLine, home |-> NoFile, local |-> Missing, env |-> NoFile],
      [LINES |-> NullLine, home |-> NoFile, local |-> Missing,
       env |-> File(<<Line(<<W.scroll, <<"1">>>>), Line(<<W.step>>)>>)],
      [LINES |-> <<"3">>, home |-> File(<<Line(<<W.echo>>)>>),
       local |-> File(<<Line(<<W.scroll>>)>>),
       env |-> File(<<Line(<<W.printlevel>>), Line(<<W.alias>>)>>)] }

\* the events the host reports: port, depth and determinism of the call
Events ==
    { [MR_trace_port |-> MR_PORT_CALL, MR_call_depth |-> 1,
       MR_sle_detism |-> "det"],
      [MR_trace_port |-> MR_PORT_EXIT, MR_call_depth |-> 2,
       MR_sle_detism |-> "nondet"],
      [MR_trace_port |-> MR_PORT_FAIL, MR_call_depth |-> 1,
       MR_sle_detism |-> "nondet"] }

\* the outcomes of MR_trace_retry
RetryResults ==
    {"MR_RETRY_OK_DIRECT", "MR_RETRY_OK_FINISH_FIRST",
     "MR_RETRY_OK_FAIL_FIRST", "MR_RETRY_ERROR"}

\* the number of items in the print list the host passes
PrintLists == {0, 1}

-----------------------------------------------------------------------------
(* The state after construction *)

NoRead == [from |-> "none", line |-> NullLine, before |-> <<>>,
           after |-> <<>>]

\* no first-use initialisation in this step
NoInit ==
    [ran |-> FALSE,
     config |-> [LINES |-> NullLine, home |-> NoFile, local |-> NoFile,
                 env |-> NoFile]]

NoSource == [opened |-> FALSE, lines |-> <<>>, before |-> <<>>]

\* the settings of the session
Settings ==
    [MR_default_print_level |-> MR_default_print_level,
     MR_scroll_control |-> MR_scroll_control,
     MR_scroll_limit |-> MR_scroll_limit,
     MR_echo_commands |-> MR_echo_commands, globals |-> globals]

\* the session state a handler is given
Sess ==
    [cmd |-> cmd, q |-> Q, aliases |-> aliases, jumpaddr |-> jumpaddr,
     MR_default_print_level |-> MR_default_print_level,
     MR_scroll_control |-> MR_scroll_control,
     MR_scroll_limit |-> MR_scroll_limit,
     MR_echo_commands |-> MR_echo_commands, globals |-> globals,
     saved |-> <<>>,
     next |-> KEEP_INTERACTING, msg |-> "none", usage |-> FALSE,
     retry |-> FALSE, after |-> "return", function |-> NULL,
     name |-> NullLine, words |-> <<>>]

\* the snapshot of the session that hist keeps
Snapshot(c, q, a, set) ==
    [cmd |-> c, queue |-> QueueLines(q), aliases |-> a, settings |-> set]

\* the decision record as the host's trace control initialises it
InitCmd ==
    [MR_trace_cmd |-> "MR_CMD_GOTO", MR_trace_stop_depth |-> 0,
     MR_trace_stop_event |-> 0, MR_trace_print_level |-> MR_PRINT_LEVEL_SOME,
     MR_trace_strict |-> FALSE, MR_trace_must_check |-> TRUE,
     MR_trace_check_integrity |-> "absent"]

\* no breakpoint, and the parameters as the file initialises them
InitGlobals ==
    [MR_spy_points |-> <<>>, MR_most_recent_spy_point |-> -1,
     MR_context_position |-> "MR_CONTEXT_AFTER",
     MR_print_goal_paths |-> TRUE,
     MR_default_breakpoint_scope |-> "MR_SPY_INTERFACE",
     MR_io_tabling_phase |-> "MR_IO_TABLING_UNINIT",
     MR_io_tabling_allowed |-> FALSE]

InitSettings ==
    [MR_default_print_level |-> MR_PRINT_LEVEL_SOME,
     MR_scroll_control |-> TRUE, MR_scroll_limit |-> 24,
     MR_echo_commands |-> FALSE, globals |-> InitGlobals]

NoHist ==
    [op |-> "none", read |-> NoRead, eof |-> FALSE, function |-> NULL,
     name |-> NullLine, words |-> <<>>, msg |-> "none", usage |-> FALSE,
     retry |-> FALSE, result |-> "none", next |-> "none", reply |-> "none",
     saved |-> <<>>,
     sourced |-> NoSource, init |-> NoInit,
     pre |-> [cmd |-> InitCmd, queue |-> <<>>, aliases |-> <<>>,
              settings |-> InitSettings],
     cmd_in |-> InitCmd]

NoTok == [problem |-> "none", words |-> <<>>]

NoCmd == [done |-> FALSE]

InitEngineOf(c) ==
    /\ pc = "host"
    /\ heap = <<>>
    /\ MR_line_head = NullNode
    /\ MR_line_tail = NullNode
    /\ cmd = c
    /\ event_info = [MR_trace_event_number |-> 0, MR_trace_port |-> MR_PORT_CALL,
                     MR_call_depth |-> 0, MR_sle_detism |-> "det",
                     interactive |-> FALSE, print_list |-> 0]
    /\ jumpaddr = NULL
    /\ MR_default_print_level = InitSettings.MR_default_print_level
    /\ MR_scroll_control = InitSettings.MR_scroll_control
    /\ MR_scroll_limit = InitSettings.MR_scroll_limit
    /\ MR_scroll_next = 0
    /\ MR_echo_commands = InitSettings.MR_echo_commands
    /\ MR_trace_internal_initialized = FALSE
    /\ globals = InitSettings.globals
    /\ gc = [cmd_chars |-> <<>>, single_quoted |-> FALSE,
             double_quoted |-> FALSE, eof |-> FALSE]
    /\ res = "none"
    /\ hist = NoHist

InitEngine == InitEngineOf(InitCmd)

Init ==
    /\ InitEngine
    /\ aliases = <<>>
    /\ mdb_in = [eof |-> FALSE, nread |-> 0, lines |-> TermLines]
    /\ host = [events |-> Events, max |-> MaxEvents,
               configs |-> InitConfigs]
    /\ tk = [line |-> <<>>, broken |-> NoTok, parsed |-> NoTok, cmd |-> NoCmd]

-----------------------------------------------------------------------------
(* The actions *)

\* what MR_trace_readline can return when it is called: a typed line, or
\* NULL at the end of the input
Readable ==
    IF mdb_in.eof \/ mdb_in.nread >= MaxTermLines THEN {NullLine}
    ELSE mdb_in.lines \cup {NullLine}

\* the input stream after a call of MR_trace_getline that gave g
AfterRead(g) ==
    IF g.from = "queue" THEN mdb_in
    ELSE IF g.line = NullLine THEN [mdb_in EXCEPT !.eof = TRUE]
    ELSE [mdb_in EXCEPT !.nread = @ + 1]

ReadOf(g) ==
    [from |-> g.from, line |-> g.line, before |-> QueueLines(Q),
     after |-> QueueLines(g.q)]

SetQueue(q) ==
    /\ heap' = q.heap
    /\ MR_line_head' = q.head
    /\ MR_line_tail' = q.tail

\* the rest of MR_trace_event_internal_report once the pager lets it go on
PrintReport ==
    MR_scroll_next' =
        IF event_info.print_list # 0 THEN 1 + event_info.print_list ELSE 1

\* MR_trace_event_internal with interactive true, up to the command loop
EnterLoop(q, init) ==
    LET i == MR_trace_internal_ensure_init(
                [initialized |-> MR_trace_internal_initialized, q |-> q,
                 MR_scroll_limit |-> MR_scroll_limit,
                 MR_io_tabling_phase |-> globals.MR_io_tabling_phase], init)
    IN  /\ SetQueue(i.q)
        /\ MR_scroll_limit' = i.MR_scroll_limit
        /\ globals' = [globals EXCEPT
                         !.MR_io_tabling_phase = i.MR_io_tabling_phase]
        /\ MR_trace_internal_initialized' = i.initialized
        /\ jumpaddr' = NULL
        /\ pc' = "prompt"

\* the first-use initialisation that EnterLoop runs, if it runs one
InitOf(init) ==
    IF MR_trace_internal_initialized THEN NoInit
    ELSE [ran |-> TRUE, config |-> init]

\* a loop that runs its body once
LoopNever(next) == FALSE

\* the while condition of the command loop
LoopAgain(next) == next = KEEP_INTERACTING

\* the host reports an event
Notify ==
    /\ pc = "host"
    /\ event_info.MR_trace_event_number < host.max
    /\ \E e \in host.events, interactive \in BOOLEAN, print_list \in PrintLists,
          init \in (IF MR_trace_internal_initialized
                    THEN {CHOOSE c \in host.configs : TRUE}
                    ELSE host.configs) :
        /\ event_info' =
              [MR_trace_event_number |-> event_info.MR_trace_event_number + 1,
               MR_trace_port |-> e.MR_trace_port,
               MR_call_depth |-> e.MR_call_depth,
               MR_sle_detism |-> e.MR_sle_detism,
               interactive |-> interactive, print_list |-> print_list]
        /\ IF interactive
           THEN /\ EnterLoop(Q, init)
                /\ hist' = [NoHist EXCEPT !.op = "notify", !.cmd_in = cmd,
                                          !.init = InitOf(init),
                                          !.pre = Snapshot(cmd, Q, aliases,
                                                           Settings)]
                /\ UNCHANGED MR_scroll_next
           ELSE IF ScrollPrompts(print_list)
           THEN /\ pc' = "more"
                /\ hist' = [NoHist EXCEPT !.op = "notify", !.cmd_in = cmd]
                /\ UNCHANGED <<heap, MR_line_head, MR_line_tail, jumpaddr,
                               MR_scroll_limit, MR_scroll_next,
                               MR_trace_internal_initialized, globals>>
           ELSE /\ pc' = "host"
                /\ jumpaddr' = NULL
                /\ MR_scroll_next' =
                      IF print_list # 0
                      THEN MR_scroll_next + 1 + print_list
                      ELSE MR_scroll_next + 1
                /\ hist' = [NoHist EXCEPT !.op = "report", !.cmd_in = cmd]
                /\ UNCHANGED <<heap, MR_line_head, MR_line_tail,
                               MR_scroll_limit,
                               MR_trace_internal_initialized, globals>>
    /\ UNCHANGED <<aliases, cmd, MR_default_print_level, MR_scroll_control,
                   MR_echo_commands, mdb_in, gc, res, tk, host>>

\* the reply to the --more-- prompt is read
More ==
    /\ pc = "more"
    /\ \E typed \in Readable,
          init \in (IF MR_trace_internal_initialized
                    THEN {CHOOSE c \in host.configs : TRUE}
                    ELSE host.configs) :
        LET g == MR_trace_getline(Q, typed)
            r == MoreReply(cmd, g.line)
        IN  /\ mdb_in' = AfterRead(g)
            /\ cmd' = r.cmd
            /\ IF r.then = "print"
               THEN /\ SetQueue(g.q)
                    /\ PrintReport
                    /\ jumpaddr' = NULL
                    /\ pc' = "host"
                    /\ hist' = [hist EXCEPT !.op = "more", !.read = ReadOf(g),
                                            !.reply = r.kind]
                    /\ UNCHANGED <<MR_scroll_limit,
                                   MR_trace_internal_initialized, globals>>
               ELSE IF r.then = "interact"
               THEN /\ EnterLoop(g.q, init)
                    /\ hist' = [hist EXCEPT !.op = "more", !.read = ReadOf(g),
                                            !.reply = r.kind,
                                            !.init = InitOf(init),
                                            !.pre = Snapshot(cmd, g.q, aliases,
                                                             Settings)]
                    /\ UNCHANGED MR_scroll_next
               ELSE /\ SetQueue(g.q)
                    /\ pc' = "more"
                    /\ hist' = [hist EXCEPT !.op = "more", !.read = ReadOf(g),
                                            !.reply = r.kind]
                    /\ UNCHANGED <<jumpaddr, MR_scroll_limit, MR_scroll_next,
                                   MR_trace_internal_initialized, globals>>
    /\ UNCHANGED <<aliases, event_info, MR_default_print_level,
                   MR_scroll_control, MR_echo_commands, gc, res, tk, host>>

\* MR_trace_get_command up to its first call of MR_trace_continue_line
GetCommand ==
    /\ pc = "prompt"
    /\ \E typed \in Readable :
        LET g == MR_trace_getline(Q, typed)
            c == MR_trace_continue_line(g.q, <<>>, g.line, FALSE, FALSE)
        IN  /\ mdb_in' = AfterRead(g)
            /\ hist' = [NoHist EXCEPT !.op = "get_command",
                                      !.read = ReadOf(g),
                                      !.reply = hist.reply,
                                      !.cmd_in = hist.cmd_in]
            /\ IF g.line = NullLine
               THEN /\ gc' = [cmd_chars |-> W.quit, single_quoted |-> FALSE,
                              double_quoted |-> FALSE, eof |-> TRUE]
                    /\ SetQueue(g.q)
                    /\ pc' = "cmd"
               ELSE /\ gc' = [cmd_chars |-> c.cmd_chars,
                              single_quoted |-> c.single_quoted,
                              double_quoted |-> c.double_quoted,
                              eof |-> FALSE]
                    /\ SetQueue(c.q)
                    /\ pc' = IF c.continues THEN "continue" ELSE "cmd"
    /\ UNCHANGED <<aliases, cmd, event_info, jumpaddr, MR_default_print_level,
                   MR_scroll_control, MR_scroll_limit, MR_scroll_next,
                   MR_echo_commands, MR_trace_internal_initialized, globals,
                   res, tk, host>>

\* one turn of the loop of MR_trace_get_command: the line continues
GetContinuation ==
    /\ pc = "continue"
    /\ \E typed \in Readable :
        LET g == MR_trace_getline(Q, typed)
            c == MR_trace_continue_line(g.q, gc.cmd_chars, g.line,
                                        gc.single_quoted, gc.double_quoted)
        IN  /\ mdb_in' = AfterRead(g)
            /\ hist' = [NoHist EXCEPT !.op = "continue", !.read = ReadOf(g),
                                      !.reply = hist.reply,
                                      !.cmd_in = hist.cmd_in]
            /\ IF g.line = NullLine
               THEN /\ gc' = gc
                    /\ SetQueue(g.q)
                    /\ pc' = "cmd"
               ELSE /\ gc' = [cmd_chars |-> c.cmd_chars,
                              single_quoted |-> c.single_quoted,
                              double_quoted |-> c.double_quoted,
                              eof |-> FALSE]
                    /\ SetQueue(c.q)
                    /\ pc' = IF c.continues THEN "continue" ELSE "cmd"
    /\ UNCHANGED <<aliases, cmd, event_info, jumpaddr, MR_default_print_level,
                   MR_scroll_control, MR_scroll_limit, MR_scroll_next,
                   MR_echo_commands, MR_trace_internal_initialized, globals,
                   res, tk, host>>

\* an engine that tells the host to check every event, whatever the
\* decision says
FinalizeMustCheck(c) == [c EXCEPT !.MR_trace_must_check = TRUE]

\* the end of MR_trace_event_internal: the decision is completed
Finalize(c) ==
    [c EXCEPT !.MR_trace_must_check =
        \/ (~c.MR_trace_strict)
        \/ (c.MR_trace_print_level # MR_PRINT_LEVEL_NONE)
        \/ (MR_TRACE_CHECK_INTEGRITY(c)
            /\ c.MR_trace_check_integrity = "MR_TRUE")]

\* the command loop once a command has given next: either it reads another
\* command or MR_trace_event_internal returns to the host
\* a return to the host that leaves the counter of the pager as it is
LoopOrReturnKeepsScroll(c, next) ==
    /\ res' = next
    /\ IF LoopAgain(next)
       THEN /\ pc' = "prompt"
            /\ cmd' = c
            /\ UNCHANGED MR_scroll_next
       ELSE /\ pc' = "host"
            /\ cmd' = Finalize(c)
            /\ UNCHANGED MR_scroll_next

LoopOrReturn(c, next) ==
    /\ res' = next
    /\ IF LoopAgain(next)
       THEN /\ pc' = "prompt"
            /\ cmd' = c
            /\ UNCHANGED MR_scroll_next
       ELSE /\ pc' = "host"
            /\ cmd' = Finalize(c)
            /\ MR_scroll_next' = 0

\* an answer for the commands that ask nothing
\* what MR_trace_parse_var_path and MR_create_cterm answer for the words of
\* a condition: a problem with the variable, no term, a term with text left
\* after it, or a variable and a term
CondParses == {"ok", "problem", "NULL", "rest"}

Answer0 ==
    [retry |-> CHOOSE r \in RetryResults : TRUE,
     file |-> CHOOSE f \in SourceFiles : TRUE,
     fopen |-> TRUE, context |-> TRUE, fault |-> FALSE, n |-> 0,
     cond |-> "ok", reply |-> UninitWord]

\* what the world outside answers to the command read: the outcome of
\* MR_trace_retry, asked only by the retry command, the file that
\* fopen finds, asked only by the source command, whether the file of
\* save can be opened for writing, whether MR_find_context finds the
\* source file of the event, asked only by the break command, whether a
\* pointer read past the end of the breakpoint table makes break_print
\* fault, and the value that the unset local n of ignore holds
AnswersOf(function) ==
    { [retry |-> r, file |-> f, fopen |-> o, context |-> c, fault |-> t,
       n |-> n, cond |-> p, reply |-> UninitWord] :
        r \in (IF function = "MR_trace_cmd_retry"
               THEN RetryResults ELSE {Answer0.retry}),
        f \in (IF function = "MR_trace_cmd_source"
               THEN SourceFiles ELSE {Answer0.file}),
        o \in (IF function = "MR_trace_cmd_save"
               THEN BOOLEAN ELSE {Answer0.fopen}),
        c \in (IF function = "MR_trace_cmd_break"
               THEN BOOLEAN ELSE {Answer0.context}),
        t \in (IF function = "MR_trace_cmd_break_print"
               THEN BOOLEAN ELSE {Answer0.fault}),
        n \in (IF function = "MR_trace_cmd_ignore"
               THEN {0, 1, 9} ELSE {Answer0.n}),
        p \in (IF function = "MR_trace_cmd_condition"
               THEN CondParses ELSE {Answer0.cond}) }

\* MR_trace_debug_cmd on the command read, and the loop test after it
DebugCmd ==
    /\ pc = "cmd"
    /\ \E s0 \in {MR_trace_debug_cmd(gc.cmd_chars, Sess, event_info, Answer0)} :
        \E x \in AnswersOf(s0.function) :
        \E s1 \in {IF x = Answer0 THEN s0
                   ELSE MR_trace_debug_cmd(gc.cmd_chars, Sess, event_info, x)} :
        \* the question of the break command is answered by a line that
        \* MR_trace_getline reads
        \E typed \in (IF s1.after = "which" THEN Readable ELSE {NullLine}) :
        \E g \in {MR_trace_getline(Q, typed)} :
        \E s \in {IF s1.after = "which"
                  THEN MR_trace_debug_cmd(gc.cmd_chars, Sess, event_info,
                                          [x EXCEPT !.reply = g.line])
                  ELSE s1} :
            /\ aliases' = s.aliases
            /\ SetQueue(IF s1.after = "which" THEN g.q ELSE s.q)
            /\ mdb_in' = IF s1.after = "which" THEN AfterRead(g) ELSE mdb_in
            /\ jumpaddr' = s.jumpaddr
            /\ MR_default_print_level' = s.MR_default_print_level
            /\ MR_scroll_control' = s.MR_scroll_control
            /\ MR_scroll_limit' = s.MR_scroll_limit
            /\ MR_echo_commands' = s.MR_echo_commands
            /\ globals' = s.globals
            /\ hist' = [NoHist EXCEPT
                    !.op = "cmd", !.eof = gc.eof, !.function = s.function,
                    !.read = IF s1.after = "which" THEN ReadOf(g) ELSE NoRead,
                    !.name = s.name, !.words = s.words, !.msg = s.msg,
                    !.usage = s.usage, !.retry = s.retry,
                    !.saved = s.saved,
                    !.result = IF s.retry THEN x.retry ELSE "none",
                    !.next = IF s.after = "return" THEN s.next ELSE "none",
                    !.sourced =
                        IF s.function = "MR_trace_cmd_source" /\ ~s.usage
                        THEN [opened |-> x.file.opened, lines |-> x.file.lines,
                              before |-> QueueLines(Q)]
                        ELSE NoSource,
                    !.pre = Snapshot(cmd, Q, aliases, Settings),
                    !.reply = hist.reply,
                    !.cmd_in = hist.cmd_in]
            /\ IF s.after = "return" THEN LoopOrReturn(s.cmd, s.next)
               ELSE /\ pc' = IF s.after = "confirm" THEN "confirm"
                             ELSE IF s.after = "exit" THEN "exited"
                             ELSE "crashed"
                    /\ cmd' = s.cmd
                    /\ res' = "none"
                    /\ UNCHANGED MR_scroll_next
    /\ UNCHANGED <<event_info, MR_trace_internal_initialized, gc, tk, host>>

\* the rest of MR_trace_cmd_quit: the reply to the question is read
QuitConfirm ==
    /\ pc = "confirm"
    /\ \E typed \in Readable :
        LET g == MR_trace_getline(Q, typed) IN
        /\ mdb_in' = AfterRead(g)
        /\ SetQueue(g.q)
        /\ hist' = [hist EXCEPT !.op = "confirm", !.read = ReadOf(g),
                                !.next = IF QuitReply(g.line) THEN "none"
                                         ELSE KEEP_INTERACTING]
        /\ IF QuitReply(g.line)
           THEN /\ pc' = "exited"
                /\ UNCHANGED <<cmd, res, MR_scroll_next>>
           ELSE LoopOrReturn(cmd, KEEP_INTERACTING)
    /\ UNCHANGED <<aliases, event_info, jumpaddr, MR_default_print_level,
                   MR_scroll_control, MR_scroll_limit, MR_echo_commands,
                   MR_trace_internal_initialized, globals, gc, tk, host>>

Next == Notify \/ More \/ GetCommand \/ GetContinuation \/ DebugCmd
            \/ QuitConfirm

Spec == Init /\ [][Next]_vars

-----------------------------------------------------------------------------
(* The same engine with a user who types lines that end inside quotes or  *)
(* in a backslash.                                                         *)

QuoteLines ==
    { Line(<<W.step>>),
      W.zz \o <<SINGLE_QUOTE_CHAR>>,
      W.zz \o <<DOUBLE_QUOTE_CHAR>>,
      <<SINGLE_QUOTE_CHAR, DOUBLE_QUOTE_CHAR>>,
      W.zz \o <<ESCAPE_CHAR>>,
      W.a \o <<SINGLE_QUOTE_CHAR, SEMI>> \o W.step }

InitQuote ==
    /\ InitEngine
    /\ aliases = <<>>
    /\ mdb_in = [eof |-> FALSE, nread |-> 0, lines |-> QuoteLines]
    /\ host = [events |-> Events, max |-> MaxEvents,
               configs |-> InitConfigs]
    /\ tk = [line |-> <<>>, broken |-> NoTok, parsed |-> NoTok, cmd |-> NoCmd]

SpecQuote == InitQuote /\ [][Next]_vars

-----------------------------------------------------------------------------
(* The same engine with a user who types next, finish, fail and retry, at  *)
(* events of every kind of port.                                           *)

MoveLines ==
    { Line(<<W.next>>), Line(<<W.next, <<"0">>>>), Line(<<W.next, <<"1">>>>),
      Line(<<W.finish>>), Line(<<W.finish, <<"2">>>>),
      Line(<<W.fail>>), Line(<<W.fail, <<"1">>>>), W.fail \o <<ESCAPE_CHAR>>,
      Line(<<W.retry>>), Line(<<W.retry, <<"1">>>>) \o <<SEMI>> \o W.zz }

MoveEvents ==
    { [MR_trace_port |-> MR_PORT_CALL, MR_call_depth |-> 2,
       MR_sle_detism |-> "det"],
      [MR_trace_port |-> MR_PORT_EXIT, MR_call_depth |-> 2,
       MR_sle_detism |-> "nondet"],
      [MR_trace_port |-> MR_PORT_FAIL, MR_call_depth |-> 1,
       MR_sle_detism |-> "nondet"],
      [MR_trace_port |-> MR_PORT_EXCEPTION, MR_call_depth |-> 1,
       MR_sle_detism |-> "multi"],
      [MR_trace_port |-> MR_PORT_EXCEPTION, MR_call_depth |-> 2,
       MR_sle_detism |-> "det"],
      [MR_trace_port |-> MR_PORT_REDO, MR_call_depth |-> 0,
       MR_sle_detism |-> "multi"] }

InitMove ==
    /\ InitEngine
    /\ aliases = <<>>
    /\ mdb_in = [eof |-> FALSE, nread |-> 0, lines |-> MoveLines]
    /\ host = [events |-> MoveEvents, max |-> MaxEvents,
               configs |-> InitConfigs]
    /\ tk = [line |-> <<>>, broken |-> NoTok, parsed |-> NoTok, cmd |-> NoCmd]

SpecMove == InitMove /\ [][Next]_vars

-----------------------------------------------------------------------------
(* The same engine with a user who types step, continue and quit with      *)
(* their options, and replies to the quit question.  The environment       *)
(* (LINES, the init files) is the same at every event of a run.            *)

InitGo ==
    /\ InitEngine
    /\ aliases = <<>>
    /\ mdb_in = [eof |-> FALSE, nread |-> 0,
                 lines |->
                    { Line(<<W.step>>), Line(<<W.step, <<"2">>>>),
                      Line(<<W.step, <<"0">>>>),
                      Line(<<W.step, Opt("S"), <<"2">>>>),
                      Line(<<W.continue>>),
                      W.step \o <<SEMI>> \o Line(<<W.continue, Opt("S")>>),
                      Line(<<W.continue, Opt("n")>>),
                      Line(<<W.continue, Opt("S"), Opt("a")>>),
                      Line(<<W.quit>>), Line(<<W.quit, Opt("y")>>),
                      Line(<<W.quit>>) \o <<SEMI>> \o W.step,
                      Line(<<W.printlevel, W.all>>),
                      W.y, <<SPACE, "Y">>, W.zz \o <<ESCAPE_CHAR>> }]
    /\ \E config \in InitConfigs :
            host = [events |-> Events, max |-> MaxEvents,
                    configs |-> {config}]
    /\ tk = [line |-> <<>>, broken |-> NoTok, parsed |-> NoTok, cmd |-> NoCmd]

SpecGo == InitGo /\ [][Next]_vars

-----------------------------------------------------------------------------
(* The same engine with a user who types the commands that take the number *)
(* of a breakpoint.  The session starts with an empty breakpoint table, or  *)
(* with an init file that makes breakpoints 0, 1 and 2 and deletes 1.       *)

InitSpy ==
    /\ InitEngine
    /\ aliases = <<>>
    /\ mdb_in = [eof |-> FALSE, nread |-> 0,
                 lines |->
                    { Line(<<W.step>>), W.zz \o <<ESCAPE_CHAR>>,
                      Line(<<W.enable>>), Line(<<W.enable, <<"*">>>>),
                      Line(<<W.disable>>), Line(<<W.disable, <<"*">>>>),
                      Line(<<W.delete, <<"0">>>>) \o <<SEMI>>
                            \o Line(<<W.delete, <<"0">>>>) }
                    \cup { Line(<<c, n>>) :
                            c \in {W.enable, W.disable, W.delete, W.ignore},
                            n \in {<<"0">>, <<"1">>, <<"5">>} }
                    \cup { Line(<<W.condition, Opt("n"), n,
                                  <<"X">>, <<"=">>, <<"1">>>>) :
                            n \in {<<"1">>, <<"5">>} }
                    \cup { Line(<<W.break_print, n, a>>) :
                            n \in {<<"1">>, <<"5">>}, a \in {W.none, W.all} }]
    /\ \E env \in {NoFile,
                   File(<<Line(<<W.break, <<"p">>>>),
                          Line(<<W.break, Opt("A"), <<"m">>>>),
                          Line(<<W.delete, <<"1">>>>)>>)} :
            host = [events |-> {[MR_trace_port |-> MR_PORT_CALL,
                                 MR_call_depth |-> 1, MR_sle_detism |-> "det"]},
                    max |-> MaxEvents,
                    configs |-> {[LINES |-> <<"2">>, home |-> NoFile,
                                  local |-> Missing, env |-> env]}]
    /\ tk = [line |-> <<>>, broken |-> NoTok, parsed |-> NoTok, cmd |-> NoCmd]

SpecSpy == InitSpy /\ [][Next]_vars

-----------------------------------------------------------------------------
(* The engine with a user who puts breakpoints on the procedure p, which   *)
(* names one procedure, and on m, which names two, and who answers the     *)
(* question about which of the two is meant.                               *)

InitBreak ==
    /\ InitEngine
    /\ aliases = <<>>
    /\ mdb_in = [eof |-> FALSE, nread |-> 0,
                 lines |->
                    { Line(<<W.step>>), W.zz \o <<ESCAPE_CHAR>>,
                      Line(<<W.break, <<"p">>>>),
                      Line(<<W.break, <<"m">>>>),
                      Line(<<W.break, Opt("A"), <<"m">>>>),
                      Line(<<W.break, Opt("O"), <<"m">>>>),
                      Line(<<W.break, Opt("e"), <<"m">>>>),
                      Line(<<W.break, <<"m">>>>) \o <<SEMI>> \o <<"1">>,
                      <<"*">>, <<"0">>, <<"1">>, <<"2">>, W.zz,
                      <<"*", SPACE>> }]
    /\ host = [events |-> {[MR_trace_port |-> MR_PORT_CALL,
                            MR_call_depth |-> 1, MR_sle_detism |-> "det"]},
               max |-> MaxEvents,
               configs |-> {[LINES |-> <<"2">>, home |-> NoFile,
                             local |-> Missing, env |-> NoFile]}]
    /\ tk = [line |-> <<>>, broken |-> NoTok, parsed |-> NoTok, cmd |-> NoCmd]

SpecBreak == InitBreak /\ [][Next]_vars

-----------------------------------------------------------------------------
(* The engine with a user who changes the parameters of the session, saves *)
(* them to a file, puts a breakpoint on a line and retries.                *)

InitSave ==
    /\ InitEngine
    /\ aliases = <<>>
    /\ mdb_in = [eof |-> FALSE, nread |-> 0,
                 lines |->
                    { Line(<<W.step>>), W.zz \o <<ESCAPE_CHAR>>,
                      Line(<<W.save, <<"f">>>>),
                      Line(<<W.printlevel, W.all>>) \o <<SEMI>>
                        \o Line(<<W.echo, W.on>>) \o <<SEMI>>
                        \o Line(<<W.scroll, W.off>>) \o <<SEMI>>
                        \o Line(<<W.scroll, <<"1", "2">>>>) \o <<SEMI>>
                        \o Line(<<W.goal_paths, W.off>>),
                      Line(<<W.printlevel, W.none>>),
                      Line(<<W.break, <<"1">>>>),
                      Line(<<W.retry>>),
                      Line(<<W.context>>), Line(<<W.scope>>) }
                    \cup { Line(<<W.context, p>>) :
                            p \in {W.none, W.before, W.after, W.prevline,
                                   W.nextline, W.nowhere} }
                    \cup { Line(<<W.scope, p>>) :
                            p \in {W.all, W.interface, W.entry} }]
    /\ host = [events |-> {[MR_trace_port |-> MR_PORT_EXIT,
                            MR_call_depth |-> 1, MR_sle_detism |-> "det"]},
               max |-> MaxEvents,
               configs |-> {[LINES |-> <<"2">>, home |-> NoFile,
                             local |-> Missing, env |-> NoFile]}]
    /\ tk = [line |-> <<>>, broken |-> NoTok, parsed |-> NoTok, cmd |-> NoCmd]

SpecSave == InitSave /\ [][Next]_vars

-----------------------------------------------------------------------------
(* The engine at events of every port, with a user who gives the movement  *)
(* commands that depend on the port.                                       *)

InitPort ==
    /\ InitEngine
    /\ aliases = <<>>
    /\ mdb_in = [eof |-> FALSE, nread |-> 0,
                 lines |->
                    { Line(<<W.step>>), W.zz \o <<ESCAPE_CHAR>>,
                      Line(<<W.forward>>), Line(<<W.return>>),
                      Line(<<W.exception>>), Line(<<W.retry>>),
                      Line(<<W.retry, <<"0">>>>), Line(<<W.retry, <<"1">>>>),
                      Line(<<W.forward, Opt("n")>>),
                      Line(<<W.return, <<"1">>>>) }]
    /\ host = [events |->
                  { [MR_trace_port |-> p, MR_call_depth |-> 1,
                     MR_sle_detism |-> "multi"] :
                        p \in {MR_PORT_CALL, MR_PORT_EXIT, MR_PORT_REDO,
                               MR_PORT_FAIL, MR_PORT_EXCEPTION} },
               max |-> MaxEvents,
               configs |-> {[LINES |-> <<"2">>, home |-> NoFile,
                             local |-> Missing, env |-> NoFile]}]
    /\ tk = [line |-> <<>>, broken |-> NoTok, parsed |-> NoTok, cmd |-> NoCmd]

SpecPort == InitPort /\ [][Next]_vars

-----------------------------------------------------------------------------
(* The engine at depth 1, built with and without MR_TRACE_CHECK_INTEGRITY, *)
(* with a user who gives movement commands with options and with numbers   *)
(* below, at and above the current event number and call depth.            *)

StopLines ==
    { Line(<<W.step>>), W.zz \o <<ESCAPE_CHAR>>,
      Line(<<W.step, <<"0">>>>), Line(<<W.step, <<"2">>>>),
      Line(<<W.step, Opt("S"), Opt("a")>>),
      Line(<<W.step, Opt("S"), Opt("n"), Opt("i")>>),
      Line(<<W.goto, <<"1">>>>), Line(<<W.goto, <<"5">>>>),
      Line(<<W.next, <<"5">>>>), Line(<<W.next, Opt("N"), Opt("n")>>),
      Line(<<W.finish, <<"2">>>>), Line(<<W.fail, <<"2">>>>),
      Line(<<W.continue, Opt("S")>>), Line(<<W.continue>>),
      Line(<<W.printlevel, W.none>>), W.q,
      Line(<<W.retry>>), Line(<<W.retry, <<"2">>>>) }

InitStop ==
    /\ \E c \in {InitCmd,
                 [InitCmd EXCEPT !.MR_trace_check_integrity = "MR_FALSE"]} :
          InitEngineOf(c)
    /\ aliases = <<>>
    /\ mdb_in = [eof |-> FALSE, nread |-> 0, lines |-> StopLines]
    /\ host = [events |->
                  { [MR_trace_port |-> p, MR_call_depth |-> 1,
                     MR_sle_detism |-> "nondet"] :
                        p \in {MR_PORT_CALL, MR_PORT_EXIT} },
               max |-> MaxEvents,
               configs |-> {[LINES |-> <<"2">>, home |-> NoFile,
                             local |-> Missing, env |-> e] :
                            e \in {NoFile, File(<<Line(<<W.step>>)>>)}}]
    /\ tk = [line |-> <<>>, broken |-> NoTok, parsed |-> NoTok, cmd |-> NoCmd]

SpecStop == InitStop /\ [][Next]_vars

-----------------------------------------------------------------------------
(* The engine with breakpoints of which the first has a condition, set by  *)
(* a sourced file, and a user who gives condition commands that fail in    *)
(* each way and ignore commands in each form.                              *)

CondLines ==
    { Line(<<W.step>>), W.zz \o <<ESCAPE_CHAR>>,
      Line(<<W.condition, <<"X">>, <<"=">>, <<"2">>>>),
      Line(<<W.condition, Opt("n"), <<"0">>, <<"X">>, <<"!", "=">>, <<"2">>>>),
      Line(<<W.condition, Opt("n"), <<"0">>, <<"X">>, <<"<">>, <<"2">>>>),
      Line(<<W.condition, Opt("n"), <<"0">>, <<"X">>, <<"=">>>>),
      Line(<<W.condition, Opt("z"), <<"X">>, <<"=">>, <<"2">>>>),
      Line(<<W.condition, Opt("n"), <<"5">>, <<"X">>, <<"=">>, <<"2">>>>),
      Line(<<W.delete, <<"0">>>>) \o <<SEMI>>
        \o Line(<<W.condition, Opt("n"), <<"0">>, <<"X">>, <<"=">>, <<"2">>>>),
      Line(<<W.ignore>>), Line(<<W.ignore, <<"*">>>>),
      Line(<<W.ignore, <<"0">>>>), Line(<<W.ignore, <<"5">>>>) }

InitCond ==
    /\ InitEngine
    /\ aliases = <<>>
    /\ mdb_in = [eof |-> FALSE, nread |-> 0, lines |-> CondLines]
    /\ \E env \in {NoFile,
                   File(<<Line(<<W.break, <<"p">>>>),
                          Line(<<W.break, Opt("A"), <<"m">>>>),
                          Line(<<W.condition, Opt("n"), <<"0">>,
                                 <<"X">>, <<"=">>, <<"1">>>>)>>)} :
            host = [events |-> {[MR_trace_port |-> MR_PORT_CALL,
                                 MR_call_depth |-> 1, MR_sle_detism |-> "det"]},
                    max |-> MaxEvents,
                    configs |-> {[LINES |-> <<"2">>, home |-> NoFile,
                                  local |-> Missing, env |-> env]}]
    /\ tk = [line |-> <<>>, broken |-> NoTok, parsed |-> NoTok, cmd |-> NoCmd]

SpecCond == InitCond /\ [][Next]_vars

-----------------------------------------------------------------------------
(* The session queue by itself: its four operations applied in any order   *)
(* to a queue that starts empty, with at most MaxQueue lines in it.        *)

MaxQueue == 3

QueueLine == {W.step, W.zz, <<>>}

QueueFile == {<<>>} \cup {<<a>> : a \in QueueLine}
                \cup {<<a, b>> : a \in QueueLine, b \in {W.step, W.zz}}

QueueOp(op, q, line, arg) ==
    /\ SetQueue(q)
    /\ hist' = [NoHist EXCEPT
                  !.op = op,
                  !.read = [from |-> "queue", line |-> line,
                            before |-> QueueLines(Q), after |-> QueueLines(q)],
                  !.sourced = [opened |-> TRUE, lines |-> arg,
                               before |-> QueueLines(Q)]]
    /\ UNCHANGED <<pc, aliases, cmd, event_info, jumpaddr,
                   MR_default_print_level, MR_scroll_control, MR_scroll_limit,
                   MR_scroll_next, MR_echo_commands,
                   MR_trace_internal_initialized, globals, mdb_in, gc, res,
                   tk, host>>

QueueSource ==
    \E file \in QueueFile :
        /\ Cardinality(DOMAIN heap) + Len(file) <= MaxQueue
        /\ QueueOp("MR_trace_source_from_open_file",
                   MR_trace_source_from_open_file(Q, file), NullLine, file)

QueueInsertAtHead ==
    \E contents \in QueueLine :
        /\ Cardinality(DOMAIN heap) < MaxQueue
        /\ QueueOp("MR_insert_line_at_head",
                   MR_insert_line_at_head(Q, contents), NullLine,
                   <<contents>>)

QueueInsertAtTail ==
    \E contents \in QueueLine :
        /\ Cardinality(DOMAIN heap) < MaxQueue
        /\ QueueOp("MR_insert_line_at_tail",
                   MR_insert_line_at_tail(Q, contents), NullLine,
                   <<contents>>)

QueueGetline ==
    \E g \in {MR_trace_getline_queue(Q)} :
        QueueOp("MR_trace_getline_queue", g.q, g.line, <<>>)

InitQueue ==
    /\ InitEngine
    /\ aliases = <<>>
    /\ mdb_in = [eof |-> FALSE, nread |-> 0, lines |-> {}]
    /\ host = [events |-> {}, max |-> 0, configs |-> {}]
    /\ tk = [line |-> <<>>, broken |-> NoTok, parsed |-> NoTok, cmd |-> NoCmd]

NextQueue ==
    QueueSource \/ QueueInsertAtHead \/ QueueInsertAtTail \/ QueueGetline

SpecQueue == InitQueue /\ [][NextQueue]_vars

-----------------------------------------------------------------------------
(* The engine with a user who sets and asks for the context position, the  *)
(* default scope and the default print level, with arguments the commands  *)
(* know and arguments they do not.                                         *)

SetLines ==
    { Line(<<W.step>>), W.zz \o <<ESCAPE_CHAR>> }
    \cup { Line(<<W.context>> \o a) :
            a \in {<<>>, <<W.none>>, <<W.before>>, <<W.prevline>>,
                   <<W.nextline>>, <<W.nowhere>>, <<W.all>>,
                   <<W.none, W.none>>} }
    \cup { Line(<<W.scope>> \o a) :
            a \in {<<>>, <<W.all>>, <<W.entry>>, <<W.none>>,
                   <<W.all, W.all>>} }
    \cup { Line(<<W.printlevel>> \o a) :
            a \in {<<>>, <<W.none>>, <<W.all>>, <<W.entry>>,
                   <<W.all, W.all>>} }

InitSet ==
    /\ InitEngine
    /\ aliases = <<>>
    /\ mdb_in = [eof |-> FALSE, nread |-> 0, lines |-> SetLines]
    /\ host = [events |-> {[MR_trace_port |-> MR_PORT_CALL,
                            MR_call_depth |-> 1, MR_sle_detism |-> "det"]},
               max |-> MaxEvents,
               configs |-> {[LINES |-> <<"2">>, home |-> NoFile,
                             local |-> Missing, env |-> e] :
                            e \in {NoFile,
                                   File(<<Line(<<W.context, W.after>>),
                                          Line(<<W.scope, W.interface>>),
                                          Line(<<W.printlevel, W.some>>),
                                          Line(<<W.scope, W.zz>>)>>)}}]
    /\ tk = [line |-> <<>>, broken |-> NoTok, parsed |-> NoTok, cmd |-> NoCmd]

SpecSet == InitSet /\ [][Next]_vars

-----------------------------------------------------------------------------
(* The engine with a user who gives the table_io commands, after sourced   *)
(* files that have allowed, started or stopped the tabling of I/O.         *)

IoLines ==
    { Line(<<W.step>>), W.zz \o <<ESCAPE_CHAR>> }
    \cup { Line(<<W.table_io>> \o a) :
            a \in {<<>>, <<W.start>>, <<W.stop>>, <<W.begin>>, <<W.end>>,
                   <<W.stats>>, <<W.allow>>, <<W.zz>>,
                   <<W.start, W.stop>>} }
    \cup { Line(<<W.table_io, W.stop>>) \o <<SEMI>>
                \o Line(<<W.table_io, W.start>>) }

InitIo ==
    /\ InitEngine
    /\ aliases = <<>>
    /\ mdb_in = [eof |-> FALSE, nread |-> 0, lines |-> IoLines]
    /\ host = [events |-> {[MR_trace_port |-> MR_PORT_CALL,
                            MR_call_depth |-> 1, MR_sle_detism |-> "det"]},
               max |-> MaxEvents,
               configs |->
                  {[LINES |-> <<"2">>, home |-> NoFile, local |-> Missing,
                    env |-> e] :
                     e \in {NoFile} \cup
                        {File(SubSeq(<<Line(<<W.table_io, W.allow>>),
                                       Line(<<W.table_io, W.start>>),
                                       Line(<<W.table_io, W.stop>>)>>, 1, n)) :
                            n \in 1..3}}]
    /\ tk = [line |-> <<>>, broken |-> NoTok, parsed |-> NoTok, cmd |-> NoCmd]

SpecIo == InitIo /\ [][Next]_vars

-----------------------------------------------------------------------------
(* The same engine started with LINES=5, with a host that reports more     *)
(* events and a user who answers the --more-- prompt.                      *)

MaxReports == 6

PageLines ==
    { Line(<<W.step>>), Line(<<W.scroll, W.off>>), W.a, <<SPACE, "n">>, W.q,
      W.zz \o <<ESCAPE_CHAR>>, <<>> }

InitPage ==
    /\ InitEngine
    /\ aliases = <<>>
    /\ mdb_in = [eof |-> FALSE, nread |-> 0, lines |-> PageLines]
    /\ host = [events |-> {[MR_trace_port |-> MR_PORT_CALL, MR_call_depth |-> 1,
                            MR_sle_detism |-> "det"]},
               max |-> MaxReports,
               configs |-> {[LINES |-> <<"5">>, home |-> NoFile,
                             local |-> Missing, env |-> e] :
                            e \in {NoFile, File(<<Line(<<W.step>>)>>)}}]
    /\ tk = [line |-> <<>>, broken |-> NoTok, parsed |-> NoTok, cmd |-> NoCmd]

SpecPage == InitPage /\ [][Next]_vars

-----------------------------------------------------------------------------
(* The tokenizer on its own: every line over a small alphabet is broken    *)
(* into words and parsed.                                                  *)

MaxLineLen == 4

TokChars == {"a", "1", SPACE, SINGLE_QUOTE_CHAR, DOUBLE_QUOTE_CHAR, ESCAPE_CHAR}

\* the three ways to type a step command with a count
StepLines ==
    { <<"3", SPACE>> \o W.step, W.step \o <<SPACE, "3">>, <<"3">> \o W.step }

TokLines ==
    UNION {[1..n -> TokChars] : n \in 0..MaxLineLen}
        \cup StepLines

engineVars ==
    <<pc, heap, MR_line_head, MR_line_tail, aliases, cmd, event_info,
      jumpaddr, MR_default_print_level, MR_scroll_control, MR_scroll_limit,
      MR_scroll_next, MR_echo_commands, MR_trace_internal_initialized,
      globals, mdb_in, gc, res, hist, host>>

\* alias tables that alias commands can build: none; a for step; the
\* aliases for the empty line and for a number that the standard mdbrc
\* makes; an alias whose replacement is the name of another alias
TokAliases ==
    { <<>>,
      [k \in {W.a} |-> <<W.step>>],
      [k \in {W.EMPTY, W.NUMBER} |-> <<W.step>>],
      [k \in {W.a, W.step} |-> IF k = W.a THEN <<W.step>> ELSE <<W.echo, W.a>>] }

InitTok ==
    /\ InitEngine
    /\ mdb_in = [eof |-> FALSE, nread |-> 0, lines |-> TermLines]
    /\ host = [events |-> Events, max |-> MaxEvents,
               configs |-> InitConfigs]
    /\ aliases \in TokAliases
    /\ tk \in [line : TokLines, broken : {NoTok}, parsed : {NoTok},
              cmd : {NoCmd}]

TokBreak ==
    /\ tk.broken = NoTok
    /\ tk' = [tk EXCEPT !.broken = MR_trace_break_into_words(tk.line)]
    /\ UNCHANGED engineVars

TokParse ==
    /\ tk.parsed = NoTok
    /\ tk' = [tk EXCEPT !.parsed = MR_trace_parse_line(tk.line)]
    /\ UNCHANGED engineVars

\* MR_trace_debug_cmd is given the line as its command
TokDebugCmd ==
    /\ ~tk.cmd.done
    /\ \E s0 \in {MR_trace_debug_cmd(tk.line, Sess, event_info, Answer0)} :
        \E x \in AnswersOf(s0.function) :
            tk' = [tk EXCEPT !.cmd =
                    [done |-> TRUE, x |-> x,
                     s |-> IF x = Answer0 THEN s0
                           ELSE MR_trace_debug_cmd(tk.line, Sess, event_info,
                                                   x)]]
    /\ UNCHANGED engineVars

NextTok == TokBreak \/ TokParse \/ TokDebugCmd

SpecTok == InitTok /\ [][NextTok]_vars

-----------------------------------------------------------------------------
(* Properties.  hist tells what the step into the current state did.       *)

\* the steps that end a command: they give the MR_Next the loop tests
CommandEnded == hist.op \in {"cmd", "confirm"} /\ hist.next # "none"

\* C1: an interactive notification returns to the host only after a handler
\* has returned STOP_INTERACTING; after every command that ends in
\* KEEP_INTERACTING the engine goes on to read another command.
C1_ReturnsOnlyAfterStop ==
    /\ (hist.op \in {"cmd", "confirm"} /\ pc = "host")
            => (hist.next = STOP_INTERACTING /\ res = STOP_INTERACTING)
    /\ (CommandEnded /\ hist.next = KEEP_INTERACTING) => pc = "prompt"
    /\ (CommandEnded /\ hist.next = STOP_INTERACTING) => pc = "host"

\* two lines were typed in the first notification, an interactive one, and
\* it has returned to the host
C1_Witness ==
    /\ pc = "host"
    /\ hist.op = "cmd"
    /\ res = STOP_INTERACTING
    /\ event_info.interactive
    /\ event_info.MR_trace_event_number = 1
    /\ mdb_in.nread = 2

\* C2: a read takes the head of the session queue whenever the queue is not
\* empty, and leaves the rest of the queue in its order; the terminal is
\* read only when the queue is empty.
C2_QueueBeforeTerminal ==
    hist.read.from # "none" =>
        IF hist.read.before # <<>>
        THEN /\ hist.read.from = "queue"
             /\ hist.read.line = Head(hist.read.before)
             /\ hist.read.after = Tail(hist.read.before)
        ELSE /\ hist.read.from = "mdb_in"
             /\ hist.read.after = <<>>

\* a line was read from a queue that held at least two lines
C2_Witness ==
    /\ hist.read.from = "queue"
    /\ Len(hist.read.before) >= 2

\* C3: sourcing a file with lines l1..ln into a queue q1..qm leaves
\* l1..ln,q1..qm; the init files are sourced so that the lines of the file
\* named by the environment come first, then those of the local file, then
\* those of the file in the home directory.
C3_SourcedAheadInOrder ==
    /\ hist.sourced.opened =>
            QueueLines(Q) = hist.sourced.lines \o hist.sourced.before
    /\ hist.init.ran =>
            QueueLines(Q) =
                (IF hist.init.config.env.opened
                 THEN hist.init.config.env.lines ELSE <<>>)
                \o (IF hist.init.config.local.opened
                    THEN hist.init.config.local.lines ELSE <<>>)
                \o (IF hist.init.config.home.opened
                    THEN hist.init.config.home.lines ELSE <<>>)
                \o hist.pre.queue

\* a file of two lines was sourced while a line was queued
C3_Witness ==
    /\ hist.sourced.opened
    /\ Len(hist.sourced.lines) >= 2
    /\ Len(hist.sourced.before) >= 1

\* the quoting state after the first i characters of line
RECURSIVE QuotingAfter(_, _)
QuotingAfter(line, i) ==
    IF i = 0 THEN [escaped |-> FALSE, single |-> FALSE, double |-> FALSE]
    ELSE LET p == QuotingAfter(line, i - 1) IN
         IF p.escaped THEN [p EXCEPT !.escaped = FALSE]
         ELSE IF line[i] = ESCAPE_CHAR THEN [p EXCEPT !.escaped = TRUE]
         ELSE IF line[i] = SINGLE_QUOTE_CHAR /\ ~p.double
         THEN [p EXCEPT !.single = ~p.single]
         ELSE IF line[i] = DOUBLE_QUOTE_CHAR /\ ~p.single
         THEN [p EXCEPT !.double = ~p.double]
         ELSE p

\* the positions of line that hold an unquoted, unescaped semicolon
Separators(line) ==
    {i \in 1..Len(line) :
        /\ line[i] = SEMI
        /\ ~QuotingAfter(line, i - 1).escaped
        /\ ~QuotingAfter(line, i - 1).single
        /\ ~QuotingAfter(line, i - 1).double}

\* C4: the command read from a line with separators is the text before the
\* first one, and the rest of the line is put at the front of the queue; a
\* line without separators is not split.
C4_SplitAtFirstSeparator ==
    (hist.op = "get_command" /\ hist.read.line # NullLine) =>
        LET line == hist.read.line
            seps == Separators(line)
        IN  IF seps # {}
            THEN LET k == CHOOSE i \in seps : \A j \in seps : i <= j IN
                 /\ gc.cmd_chars = SubSeq(line, 1, k - 1)
                 /\ QueueLines(Q) =
                        <<SubSeq(line, k + 1, Len(line))>> \o hist.read.after
                 /\ pc = "cmd"
            ELSE /\ QueueLines(Q) = hist.read.after
                 /\ Len(gc.cmd_chars) = Len(line)

\* a line with a separator was read while other lines were queued, and
\* a line was split after a semicolon that is escaped
C4_Witness ==
    /\ hist.op = "get_command"
    /\ hist.read.line # NullLine
    /\ Separators(hist.read.line) # {}
    /\ Len(hist.read.after) >= 1

\* C5: the command made up at the end of the input is handled by quit: the
\* engine asks for confirmation or ends the process.
C5_EofQuits ==
    (hist.op = "cmd" /\ hist.eof) =>
        /\ hist.function = "MR_trace_cmd_quit"
        /\ pc \in {"confirm", "exited"}

\* the movement decision and the resume address of a notification that is
\* not interactive, as the claim C6 wants them
NoDecision ==
    /\ pc \in {"host", "more"}
    /\ cmd = hist.cmd_in
    /\ pc = "host" => jumpaddr = NULL

\* C6 as stated: a notification that is not interactive never enters the
\* command loop, returns a NULL resume address and leaves the decision
\* record as the host passed it in.
C6_NonInteractiveNoDecision == ~event_info.interactive => NoDecision

\* C6 amended: the same, unless the pager prompted and the reply to its
\* prompt was a, n, s or q.
C6_NoDecisionUnlessPagerReply ==
    (~event_info.interactive /\ hist.reply \notin {"level", "quit"})
        => NoDecision

\* the pager prompted in a notification that is not interactive, got a
\* blank reply, and the notification has returned
C6_Witness ==
    /\ ~event_info.interactive
    /\ pc = "host"
    /\ hist.op = "more"
    /\ hist.reply = "blank"

\* C7: the dispatcher never selects the entry NUMBER or EMPTY, and every
\* entry it invokes has a handler function.
C7_ReservedNeverDispatched ==
    hist.op = "cmd" =>
        /\ hist.name \notin {W.NUMBER, W.EMPTY}
        /\ hist.name # NullLine => hist.function # NULL
        /\ pc # "crashed"

\* C8: a movement handler that prints a usage error returns
\* KEEP_INTERACTING, has not called MR_trace_retry and leaves the kind of
\* movement in the decision record as it was.
C8_UsageErrorKeeps ==
    (/\ hist.op = "cmd"
     /\ hist.usage
     /\ hist.function \in
            {"MR_trace_cmd_step", "MR_trace_cmd_goto", "MR_trace_cmd_next",
             "MR_trace_cmd_finish", "MR_trace_cmd_fail",
             "MR_trace_cmd_exception", "MR_trace_cmd_return",
             "MR_trace_cmd_forward", "MR_trace_cmd_mindepth",
             "MR_trace_cmd_maxdepth", "MR_trace_cmd_continue",
             "MR_trace_cmd_retry"})
        => /\ hist.next = KEEP_INTERACTING
           /\ ~hist.retry
           /\ cmd.MR_trace_cmd = hist.pre.cmd.MR_trace_cmd
           /\ pc = "prompt"

\* C9: a command whose first word, after alias expansion, is no name of the
\* dispatch table is reported as unknown and gives KEEP_INTERACTING; the
\* queue, the aliases, the settings and the decision record stay as they
\* were.
C9_UnknownCommand ==
    (/\ hist.op = "cmd"
     /\ hist.words # <<>>
     /\ \A i \in 1..Len(MR_trace_command_infos) :
            MR_trace_command_infos[i].MR_cmd_name # hist.words[1])
        => /\ hist.msg = "Unknown command"
           /\ hist.next = KEEP_INTERACTING
           /\ pc = "prompt"
           /\ Snapshot(cmd, Q, aliases, Settings) = hist.pre

\* an unknown command was given while lines were queued
C9_Witness ==
    /\ hist.op = "cmd"
    /\ hist.msg = "Unknown command"
    /\ hist.pre.queue # <<>>
    /\ hist.pre.aliases # <<>>

\* the words of a line by the rules of the command language: a word ends at
\* white space outside quotes; a backslash is dropped and the character
\* after it kept; single quotes are dropped; double quotes are dropped when
\* strip_double holds and kept otherwise.  The result has problem # NULL for
\* a line that ends inside quotes or right after a backslash.
RECURSIVE WordsOf(_, _, _, _, _)
WordsOf(rest, mode, in_word, cur, strip_double) ==
    IF rest = <<>>
    THEN IF mode # "plain" THEN [problem |-> "unmatched quote", words |-> <<>>]
         ELSE [problem |-> NULL, words |-> IF in_word THEN <<cur>> ELSE <<>>]
    ELSE LET c == Head(rest) IN
         IF mode = "plain" /\ c = SPACE
         THEN LET r == WordsOf(Tail(rest), "plain", FALSE, <<>>,
                               strip_double)
              IN  IF in_word /\ r.problem = NULL
                  THEN [r EXCEPT !.words = <<cur>> \o @]
                  ELSE r
         ELSE IF c = SINGLE_QUOTE_CHAR /\ mode # "double"
         THEN WordsOf(Tail(rest),
                      IF mode = "single" THEN "plain" ELSE "single",
                      TRUE, cur, strip_double)
         ELSE IF c = DOUBLE_QUOTE_CHAR /\ mode # "single"
         THEN WordsOf(Tail(rest),
                      IF mode = "double" THEN "plain" ELSE "double",
                      TRUE, IF strip_double THEN cur ELSE Append(cur, c),
                      strip_double)
         ELSE IF c = ESCAPE_CHAR
         THEN IF Len(rest) = 1
              THEN [problem |-> "bad backslash", words |-> <<>>]
              ELSE WordsOf(Tail(Tail(rest)), mode, TRUE,
                           Append(cur, rest[2]), strip_double)
         ELSE WordsOf(Tail(rest), mode, TRUE, Append(cur, c), strip_double)

\* the tokenizer agrees with WordsOf on the line it was given
TokenizerGives(strip_double) ==
    tk.broken # NoTok =>
        LET r == WordsOf(tk.line, "plain", FALSE, <<>>, strip_double) IN
        /\ (tk.broken.problem = NULL) <=> (r.problem = NULL)
        /\ tk.broken.words = r.words

\* C10 as stated: the words are those of the line split at unquoted,
\* unescaped white space, with single quotes, double quotes and escaping
\* backslashes removed.
C10_QuotesStripped == TokenizerGives(TRUE)

\* C10 amended: double quotes keep white space from splitting a word but
\* stay in the word; single quotes and escaping backslashes are removed.
C10_DoubleQuotesKept == TokenizerGives(FALSE)

\* a line with a space in double quotes was broken into one word that
\* still holds the double quotes
C10_Witness ==
    /\ tk.line = <<DOUBLE_QUOTE_CHAR, SPACE, DOUBLE_QUOTE_CHAR, "a">>
    /\ tk.broken.words = << <<DOUBLE_QUOTE_CHAR, SPACE, DOUBLE_QUOTE_CHAR,
                               "a">> >>

\* the line was parsed into words, and parsing those words joined by single
\* spaces gives the same words again
RoundTrips ==
    MR_trace_parse_line(Line(tk.parsed.words)) = tk.parsed

\* the line holds no single quote and no backslash
PlainLine ==
    \A i \in 1..Len(tk.line) :
        tk.line[i] \notin {SINGLE_QUOTE_CHAR, ESCAPE_CHAR}

\* C11 as stated: the words of any line that tokenizes, joined by single
\* spaces and tokenized again, are the same words.
C11_RoundTrip ==
    (tk.parsed # NoTok /\ tk.parsed.problem = NULL) => RoundTrips

\* C11 amended: the same for a line without single quotes and backslashes
\* whose first word, as parsed, is a natural number or does not begin with
\* a digit.
C11_RoundTripPlain ==
    (/\ tk.parsed # NoTok
     /\ tk.parsed.problem = NULL
     /\ PlainLine
     /\ tk.parsed.words # <<>> =>
            \/ MR_trace_is_natural_number(tk.parsed.words[1])
            \/ DigitPrefixLen(tk.parsed.words[1]) = 0)
        => RoundTrips

\* a number and a double-quoted space in one raw word were parsed into the
\* quoted word followed by the number
C11_Witness ==
    /\ tk.line = <<"1", DOUBLE_QUOTE_CHAR, SPACE, DOUBLE_QUOTE_CHAR>>
    /\ tk.parsed # NoTok
    /\ tk.parsed.words =
            << <<DOUBLE_QUOTE_CHAR, SPACE, DOUBLE_QUOTE_CHAR>>, <<"1">> >>

\* the error the command language gives a line: a backslash with nothing
\* after it, or else the quote that is still open at the end of the line
ExpectedProblem ==
    LET q == QuotingAfter(tk.line, Len(tk.line)) IN
    IF q.escaped THEN "bad backslash"
    ELSE IF q.single THEN "unmatched single quote"
    ELSE IF q.double THEN "unmatched double quote"
    ELSE NULL

\* C12: a line that ends in a lone backslash fails with "bad backslash", a
\* line that ends inside single quotes with "unmatched single quote", one
\* that ends inside double quotes with "unmatched double quote" (the
\* backslash is reported when a quote is open too); MR_trace_debug_cmd
\* reports that error, calls no handler, returns KEEP_INTERACTING and
\* leaves the session as it was.
C12_TokenizerErrors ==
    /\ tk.broken # NoTok => tk.broken.problem = ExpectedProblem
    /\ (tk.parsed # NoTok /\ ExpectedProblem # NULL)
            => tk.parsed.problem = ExpectedProblem
    /\ (tk.cmd.done /\ ExpectedProblem # NULL)
            => /\ tk.cmd.s.msg = ExpectedProblem
               /\ tk.cmd.s.function = NULL
               /\ tk.cmd.s.next = KEEP_INTERACTING
               /\ tk.cmd.s = [Sess EXCEPT !.msg = ExpectedProblem]

\* a line with an open double quote was given to the tokenizer and to
\* MR_trace_debug_cmd
C12_Witness ==
    /\ tk.line = <<"a", SPACE, DOUBLE_QUOTE_CHAR, "a">>
    /\ tk.broken # NoTok
    /\ tk.cmd.done
    /\ tk.cmd.s.msg = "unmatched double quote"

\* the words the numeric prefix rule makes of the raw words: the digits
\* that start word one, when something follows them, become a word of their
\* own, and then a number in position one changes places with a word in
\* position two that is no number
Normalized(raw) ==
    LET d == IF raw = <<>> THEN 0 ELSE DigitPrefixLen(raw[1])
        split == IF d > 0 /\ d < Len(raw[1])
                 THEN <<SubSeq(raw[1], 1, d),
                        SubSeq(raw[1], d + 1, Len(raw[1]))>> \o Tail(raw)
                 ELSE raw
    IN  IF /\ Len(split) >= 2
           /\ MR_trace_is_natural_number(split[1])
           /\ ~MR_trace_is_natural_number(split[2])
        THEN <<split[2], split[1]>> \o SubSeq(split, 3, Len(split))
        ELSE split

\* C13: `3 step', `step 3' and `3step' are all parsed into step,3; on any
\* line that is parsed, the digits that start word one are split off and a
\* number in front of a word that is no number changes places with it.
C13_NumberPrefix ==
    /\ (tk.parsed # NoTok /\ tk.line \in StepLines)
            => tk.parsed = [problem |-> NULL, words |-> <<W.step, <<"3">>>>]
    /\ (tk.parsed # NoTok /\ tk.broken # NoTok /\ tk.parsed.problem = NULL)
            => /\ tk.parsed.words = Normalized(tk.broken.words)
               /\ Len(tk.parsed.words) >= 2
                    => \/ ~MR_trace_is_natural_number(tk.parsed.words[1])
                       \/ MR_trace_is_natural_number(tk.parsed.words[2])

\* `3step' was parsed into step,3
C13_Witness ==
    /\ tk.line = <<"3">> \o W.step
    /\ tk.broken # NoTok
    /\ tk.parsed = [problem |-> NULL, words |-> <<W.step, <<"3">>>>]

\* the key under which the alias of the words of a line is looked up
AliasKey(words) ==
    IF words = <<>> THEN W.EMPTY
    ELSE IF MR_trace_is_natural_number(words[1]) THEN W.NUMBER
    ELSE words[1]

\* the words after one alias expansion: the replacement, then the words
\* given, without word one when it was the key
Expanded(table, words) ==
    IF AliasKey(words) \notin DOMAIN table THEN words
    ELSE table[AliasKey(words)]
            \o (IF AliasKey(words) \in {W.EMPTY, W.NUMBER} THEN words
                ELSE Tail(words))

\* C14: the words MR_trace_debug_cmd works on are the parsed words
\* expanded once, and the command is handled as those words are handled
\* without any alias.
C14_ExpandedOnce ==
    (tk.cmd.done /\ tk.parsed # NoTok /\ tk.parsed.problem = NULL) =>
        LET words == Expanded(aliases, tk.parsed.words) IN
        /\ tk.cmd.s.words = words
        /\ words # <<>> =>
            tk.cmd.s = MR_trace_handle_cmd(words, [Sess EXCEPT !.words = words],
                                           event_info, tk.cmd.x)

\* with a an alias for step and step an alias too, the line `a 1' was
\* handled by the step command with the words step,1
C14_Witness ==
    /\ tk.line = <<"a", SPACE, "1">>
    /\ DOMAIN aliases = {W.a, W.step}
    /\ tk.parsed # NoTok
    /\ tk.cmd.done
    /\ tk.cmd.s.function = "MR_trace_cmd_step"
    /\ tk.cmd.s.words = <<W.step, <<"1">>>>

\* the text that a command consists of once line is appended to prev, and
\* whether more is to be read: the text ends before the first separator;
\* without one, a backslash at its end becomes a space and it goes on while
\* a quote is open or the newline was escaped
Accumulated(prev, line) ==
    LET text == prev \o line
        seps == Separators(text)
        end == QuotingAfter(text, Len(text))
    IN  IF seps # {}
        THEN [text |-> SubSeq(text, 1,
                              (CHOOSE i \in seps : \A j \in seps : i <= j) - 1),
              more |-> FALSE]
        ELSE [text |-> IF end.escaped THEN [text EXCEPT ![Len(text)] = SPACE]
                       ELSE text,
              more |-> end.single \/ end.double \/ end.escaped]

\* C15: a step taken while a command is read reads one line; the line is
\* appended to the text so far, and another line is read next exactly when
\* the text ends inside a quote or in an escaped newline; at the end of the
\* input reading stops with the text as it is; a text handed to the
\* tokenizer after a line was read has no open quote.
C15_Step ==
    pc \in {"prompt", "continue"} =>
        LET prev == IF pc = "prompt" THEN <<>> ELSE gc.cmd_chars
            line == hist'.read.line
        IN  /\ hist'.op = (IF pc = "prompt" THEN "get_command" ELSE "continue")
            /\ IF line = NullLine
               THEN /\ pc' = "cmd"
                    /\ gc'.cmd_chars = (IF pc = "prompt" THEN W.quit ELSE prev)
               ELSE /\ gc'.cmd_chars = Accumulated(prev, line).text
                    /\ pc' = (IF Accumulated(prev, line).more THEN "continue"
                              ELSE "cmd")
                    /\ pc' = "cmd" =>
                        LET end == QuotingAfter(gc'.cmd_chars,
                                                Len(gc'.cmd_chars))
                        IN  ~end.single /\ ~end.double /\ ~end.escaped

C15_ContinuationLines == [][C15_Step]_vars

\* a line that ended inside a single quote was continued by a line that
\* closes the quote and has a separator after it: the command is the two
\* lines up to the separator, the rest is queued
C15_Witness ==
    /\ hist.op = "continue"
    /\ pc = "cmd"
    /\ gc.cmd_chars = W.zz \o <<SINGLE_QUOTE_CHAR>> \o W.a \o <<SINGLE_QUOTE_CHAR>>
    /\ QueueLines(Q) = <<W.step>>

\* the last step ran the command name, given alone or with a number
Ran(name) ==
    /\ hist.op = "cmd"
    /\ hist.words \in {<<name>>} \cup {<<name, n>> : n \in {<<"0">>, <<"1">>, <<"2">>}}

\* the number given to the command of the last step, 0 if none
Given == IF Len(hist.words) = 2 THEN NaturalValue(hist.words[2]) ELSE 0

\* the last step began no movement: the loop goes on and the kind and the
\* stop depth of the decision record are as they were
NoMovement ==
    /\ hist.next = KEEP_INTERACTING
    /\ pc = "prompt"
    /\ cmd.MR_trace_cmd = hist.pre.cmd.MR_trace_cmd
    /\ cmd.MR_trace_stop_depth = hist.pre.cmd.MR_trace_stop_depth

\* the last step returned the movement kind to the host, to stop at depth
Movement(kind, depth) ==
    /\ hist.next = STOP_INTERACTING
    /\ pc = "host"
    /\ cmd.MR_trace_cmd = kind
    /\ cmd.MR_trace_stop_depth = depth

\* C16: next N and finish N at depth D return NEXT and FINISH with stop
\* depth D - N, but at a final port with N = 0 they report a no-op and the
\* loop goes on.
C16_NextFinish ==
    \A name \in {W.next, W.finish} :
        Ran(name) =>
            IF Given = 0 /\ event_info.MR_trace_port \in
                    {MR_PORT_EXIT, MR_PORT_FAIL, MR_PORT_EXCEPTION}
            THEN /\ NoMovement
                 /\ hist.msg = "This command is a no-op from this port"
            ELSE /\ Movement(IF name = W.next THEN "MR_CMD_NEXT"
                             ELSE "MR_CMD_FINISH",
                             event_info.MR_call_depth - Given)
                 /\ hist.msg = "none"

\* finish 2 at an EXIT port of depth 2 gave FINISH with stop depth 0
C16_Witness ==
    /\ Ran(W.finish)
    /\ Given = 2
    /\ event_info.MR_trace_port = MR_PORT_EXIT
    /\ event_info.MR_call_depth = 2
    /\ cmd.MR_trace_cmd = "MR_CMD_FINISH"
    /\ cmd.MR_trace_stop_depth = 0
    /\ pc = "host"

C18_RetryFirst ==
    (/\ hist.op = "cmd"
     /\ hist.function = "MR_trace_cmd_retry"
     /\ hist.result \in {"MR_RETRY_OK_FINISH_FIRST", "MR_RETRY_OK_FAIL_FIRST"})
        => LET last == hist.words[Len(hist.words)]
               L == IF MR_trace_is_natural_number(last)
                    THEN NaturalValue(last) ELSE 0
           IN  /\ Movement(IF hist.result = "MR_RETRY_OK_FINISH_FIRST"
                           THEN "MR_CMD_FINISH" ELSE "MR_CMD_FAIL",
                           event_info.MR_call_depth - L)
               /\ QueueLines(Q) =
                    <<Line(<<W.retry, Opt("o")>>)>> \o hist.pre.queue

\* retry 1 was answered by finish first while the line zz was queued
C18_Witness ==
    /\ hist.op = "cmd"
    /\ hist.words = <<W.retry, <<"1">>>>
    /\ hist.result = "MR_RETRY_OK_FINISH_FIRST"
    /\ hist.pre.queue = <<W.zz>>
    /\ QueueLines(Q) = <<Line(<<W.retry, Opt("o")>>), W.zz>>
    /\ cmd.MR_trace_cmd = "MR_CMD_FINISH"
    /\ cmd.MR_trace_stop_depth = event_info.MR_call_depth - 1
    /\ pc = "host"

\* C19: when the host reports an event that is not interactive, the pager
\* asks --more-- exactly if scrolling is on and the lines counted plus the
\* items of the print list are at least the page size less one; otherwise
\* the report is printed at once and counted with its items.
C19_Step ==
    (pc = "host" /\ event_info' # event_info /\ ~event_info'.interactive) =>
        IF MR_scroll_control
            /\ MR_scroll_next + event_info'.print_list >= MR_scroll_limit - 1
        THEN pc' = "more" /\ MR_scroll_next' = MR_scroll_next
        ELSE /\ pc' = "host"
             /\ hist'.op = "report"
             /\ MR_scroll_next' = MR_scroll_next + 1 + event_info'.print_list

C19_PromptIffPageFull == [][C19_Step]_vars

\* with page size 5 the first event was interactive, the four events after
\* it were printed without a prompt and without print lists, and the
\* fifth is held at the prompt
C19_Witness ==
    /\ pc = "more"
    /\ MR_scroll_control
    /\ MR_scroll_limit = 5
    /\ MR_scroll_next = 4
    /\ event_info.print_list = 0
    /\ event_info.MR_trace_event_number = 6
    /\ hist.op = "notify"

\* the first character of a reply that is not white space; NUL if none is
FirstChar(buf) ==
    IF \A i \in 1..Len(buf) : buf[i] = SPACE THEN NUL
    ELSE buf[CHOOSE i \in 1..Len(buf) :
                /\ buf[i] # SPACE
                /\ \A j \in 1..(i - 1) : buf[j] = SPACE]

\* the print level that the reply letter asks for
LevelOf(ch) ==
    IF ch = "a" THEN MR_PRINT_LEVEL_ALL
    ELSE IF ch = "n" THEN MR_PRINT_LEVEL_NONE
    ELSE MR_PRINT_LEVEL_SOME

\* what a reply to the --more-- prompt does, but for the counter: a, n and
\* s set the print level and the report is printed; q starts the command
\* loop on the same event; nothing or the end of the input prints the
\* report; anything else is refused and asked for again
ReplyDecides ==
    LET buf == hist'.read.line
        ch == IF buf = NullLine THEN NUL ELSE FirstChar(buf)
    IN  /\ hist'.op = "more"
        /\ event_info' = event_info
        /\ IF ch = NUL
           THEN pc' = "host" /\ cmd' = cmd
           ELSE IF ch \in {"a", "n", "s"}
           THEN /\ pc' = "host"
                /\ cmd' = [cmd EXCEPT !.MR_trace_print_level = LevelOf(ch)]
           ELSE IF ch = "q"
           THEN pc' = "prompt" /\ cmd' = cmd
           ELSE /\ pc' = "more"
                /\ cmd' = cmd
                /\ hist'.reply = "unknown"
                /\ MR_scroll_next' = MR_scroll_next

\* C20 as claimed: the reply decides, and when the prompt is left the
\* counter has been set to 0, so that it counts the report printed and no
\* more.
C20_Step ==
    pc = "more" =>
        /\ ReplyDecides
        /\ pc' = "host" => MR_scroll_next' = 1 + event_info.print_list
        /\ pc' = "prompt" => MR_scroll_next' = 0

C20_CounterResetOnLeave == [][C20_Step]_vars

\* C20 amended: after q the counter is as it was while the commands are
\* read, and it is set to 0 when the command loop returns to the host.
C20_StepDeferred ==
    /\ pc = "more" =>
        /\ ReplyDecides
        /\ pc' = "host" => MR_scroll_next' = 1 + event_info.print_list
        /\ pc' = "prompt" => MR_scroll_next' = MR_scroll_next
    /\ pc \in {"prompt", "continue", "cmd", "confirm"} =>
        MR_scroll_next' = (IF pc' = "host" THEN 0 ELSE MR_scroll_next)

C20_ResetWhenLoopReturns == [][C20_StepDeferred]_vars

\* the reply q has started the command loop on the event that was to be
\* reported, and the counter still has the value that made the pager ask
C20_Witness ==
    /\ hist.op = "more"
    /\ hist.reply = "quit"
    /\ pc = "prompt"
    /\ ~event_info.interactive
    /\ MR_scroll_limit = 5
    /\ MR_scroll_next = 4

-----------------------------------------------------------------------------
(* quit, continue and step *)

\* whether the reply to the quit question says yes: it is the end of the
\* input, or its first character that is not a blank is y or Y
SaysYes(reply) ==
    \/ reply = NullLine
    \/ \E i \in 1..Len(reply) :
        /\ reply[i] \in {"y", "Y"}
        /\ \A j \in 1..(i - 1) : reply[j] = SPACE

\* quit -y ends the process at once, quit asks, and the reply ends the
\* process exactly when it says yes; kept tells what a reply that does not
\* has left of the session
QuitAsks(kept) ==
    /\ (hist.op = "cmd" /\ hist.words = <<W.quit, Opt("y")>>) =>
            pc = "exited" /\ hist.read = NoRead
    /\ (hist.op = "cmd" /\ hist.words = <<W.quit>>) => pc = "confirm"
    /\ hist.op = "confirm" =>
        IF SaysYes(hist.read.line) THEN pc = "exited"
        ELSE /\ pc = "prompt"
             /\ hist.next = KEEP_INTERACTING
             /\ kept

\* C24 as stated: quit -y ends the process without asking; quit asks, ends
\* the process iff the reply starts (after blanks) with y or Y or is the
\* end of the input, and otherwise keeps interacting with the session
\* state (decision record, queue, aliases, settings) unchanged.
C24_QuitReplyKeepsSession ==
    QuitAsks(Snapshot(cmd, Q, aliases, Settings) = hist.pre)

\* C24, amended: as above, but the reply is read as every line is, from the
\* session queue first: a reply that the queue gave is gone from the
\* queue, and nothing else of the session changes.
C24_QuitReplyTakenFromQueue ==
    QuitAsks(/\ Snapshot(cmd, Q, aliases, Settings) =
                    [hist.pre EXCEPT !.queue = hist.read.after]
             /\ hist.read.before = hist.pre.queue
             /\ hist.read.after =
                    IF hist.pre.queue = <<>> THEN <<>>
                    ELSE Tail(hist.pre.queue)
             /\ hist.pre.queue # <<>> =>
                    hist.read.line = Head(hist.pre.queue))

\* the queued step was read as the reply to the question of quit: the loop
\* goes on and the queue is empty
C24_Witness ==
    /\ hist.op = "confirm"
    /\ hist.read.from = "queue"
    /\ hist.read.line = W.step
    /\ hist.pre.queue = <<W.step>>
    /\ QueueLines(Q) = <<>>
    /\ pc = "prompt"

\* the print level that the options of the words name, the last one if
\* several do, or unset if none does
LevelNamed(ws, unset) ==
    LET named == {i \in 2..Len(ws) :
                    ws[i] \in {Opt("a"), Opt("n"), Opt("s")}}
        last == CHOOSE i \in named : \A j \in named : j <= i
    IN  IF named = {} THEN unset
        ELSE IF ws[last] = Opt("a") THEN MR_PRINT_LEVEL_ALL
        ELSE IF ws[last] = Opt("n") THEN MR_PRINT_LEVEL_NONE
        ELSE MR_PRINT_LEVEL_SOME

\* C27: continue returns STOP_INTERACTING with kind TO_END, strict exactly
\* when the strict option is given, with the print level an option names,
\* or else NONE when strict and SOME when not.
C27_Continue ==
    (/\ hist.op = "cmd"
     /\ hist.words # <<>>
     /\ Head(hist.words) = W.continue
     /\ \A i \in 2..Len(hist.words) :
            hist.words[i] \in {Opt("S"), Opt("a"), Opt("n"), Opt("s")})
    => LET strict == \E i \in 2..Len(hist.words) : hist.words[i] = Opt("S")
       IN  /\ hist.next = STOP_INTERACTING
           /\ pc = "host"
           /\ cmd.MR_trace_cmd = "MR_CMD_TO_END"
           /\ cmd.MR_trace_strict = strict
           /\ cmd.MR_trace_print_level =
                LevelNamed(hist.words,
                           IF strict THEN MR_PRINT_LEVEL_NONE
                           ELSE MR_PRINT_LEVEL_SOME)

\* continue -S returned TO_END, strict, with print level NONE, when the
\* default print level is ALL
C27_Witness ==
    /\ hist.op = "cmd"
    /\ hist.words = <<W.continue, Opt("S")>>
    /\ pc = "host"
    /\ cmd.MR_trace_cmd = "MR_CMD_TO_END"
    /\ cmd.MR_trace_strict
    /\ cmd.MR_trace_print_level = MR_PRINT_LEVEL_NONE
    /\ MR_default_print_level = MR_PRINT_LEVEL_ALL

-----------------------------------------------------------------------------
(* First use *)

\* the lines that the first use puts in the queue, ahead of what it holds:
\* those of the file named in the environment, those of the local file,
\* those of the file of the home directory
InitLines(config) ==
    (IF config.env.opened THEN config.env.lines ELSE <<>>)
        \o (IF config.local.opened THEN config.local.lines ELSE <<>>)
        \o (IF config.home.opened THEN config.home.lines ELSE <<>>)

\* a step of the engine initialises the session only when it enters the
\* command loop for the first time, and a session once initialised stays
\* so: a later notification finds aliases, settings and queue as they are
\* and sources nothing (the pager takes its reply from the queue, no more)
C25_Step ==
    /\ MR_trace_internal_initialized => MR_trace_internal_initialized'
    /\ pc' \in {"prompt", "continue", "cmd", "confirm"} =>
            MR_trace_internal_initialized'
    /\ (~MR_trace_internal_initialized /\ MR_trace_internal_initialized') =>
            /\ pc \in {"host", "more"}
            /\ pc' = "prompt"
            /\ hist'.init.ran
            /\ QueueLines(Q)' =
                    InitLines(hist'.init.config) \o hist'.pre.queue
            /\ MR_scroll_limit' =
                    IF hist'.init.config.LINES = <<"3">> THEN 3
                    ELSE MR_scroll_limit
    /\ (MR_trace_internal_initialized /\ pc \in {"host", "more"}) =>
            /\ aliases' = aliases
            /\ Settings' = Settings
            /\ QueueLines(Q)' = IF pc = "host" THEN QueueLines(Q)
                                ELSE hist'.read.after
            /\ pc = "more" =>
                    /\ hist'.read.before = QueueLines(Q)
                    /\ hist'.read.after =
                            IF QueueLines(Q) = <<>> THEN <<>>
                            ELSE Tail(QueueLines(Q))

\* C25: the session is initialised exactly once, on first use; every later
\* notification finds the aliases, the settings, the scroll settings and
\* the session queue as they were left and sources no init file again.
C25_InitOnce == [][C25_Step]_vars

\* the command loop of the second event starts in a session that the first
\* event initialised (LINES=3, three init files): the queue still holds
\* the command left by the first event and nothing was sourced
C25_Witness ==
    /\ hist.op = "notify"
    /\ pc = "prompt"
    /\ event_info.MR_trace_event_number = 2
    /\ MR_trace_internal_initialized
    /\ ~hist.init.ran
    /\ MR_scroll_limit = 3
    /\ QueueLines(Q) = <<Line(<<W.continue, Opt("S")>>)>>

-----------------------------------------------------------------------------
(* The commands that take the number of a breakpoint *)

\* the breakpoint table before the command of the last step
PreTable == hist.pre.settings.globals

\* the number of the breakpoint that the command of the last step names,
\* -1 if it names none
IndexOf ==
    IF /\ hist.function \in {"MR_trace_cmd_enable", "MR_trace_cmd_disable",
                             "MR_trace_cmd_delete", "MR_trace_cmd_ignore"}
       /\ Len(hist.words) = 2
       /\ hist.words[2] \in {<<"0">>, <<"1">>, <<"5">>}
    THEN DigitVal(hist.words[2][1])
    ELSE IF /\ hist.function = "MR_trace_cmd_break_print"
            /\ Len(hist.words) = 3
            /\ hist.words[2] \in {<<"1">>, <<"5">>}
    THEN DigitVal(hist.words[2][1])
    ELSE IF /\ hist.function = "MR_trace_cmd_condition"
            /\ Len(hist.words) = 6
            /\ hist.words[2] = Opt("n")
            /\ hist.words[3] \in {<<"1">>, <<"5">>}
    THEN DigitVal(hist.words[3][1])
    ELSE 0 - 1

\* breakpoint n of table g was made and has not been deleted
Live(g, n) ==
    /\ n + 1 \in DOMAIN g.MR_spy_points
    /\ g.MR_spy_points[n + 1].spy_exists

\* the last step ran a command on a breakpoint that does not exist: it
\* said so, the loop goes on and the table is as it was
Refused ==
    /\ hist.msg \in {"break point does not exist", "There is no breakpoint N",
                     "Breakpoint N has been deleted"}
    /\ hist.next = KEEP_INTERACTING
    /\ pc = "prompt"
    /\ globals = PreTable

\* C21: enable, disable, delete, ignore, condition and break_print, given
\* the number of a breakpoint that was never made or has been deleted,
\* report that it does not exist, return KEEP_INTERACTING and leave the
\* table alone.
C21_NoSuchBreakpoint ==
    (hist.op = "cmd" /\ IndexOf >= 0 /\ ~Live(PreTable, IndexOf)) => Refused

\* C22: enable on breakpoints that are enabled and disable on breakpoints
\* that are disabled (by number, by * or for the most recent one) give no
\* error and leave the table as it was; with a number, only the enabled
\* flag of that slot changes.
C22_EnableDisable ==
    \A flag \in BOOLEAN :
        (/\ hist.op = "cmd"
         /\ hist.function = (IF flag THEN "MR_trace_cmd_enable"
                             ELSE "MR_trace_cmd_disable")
         /\ Len(hist.words) <= 2)
        => LET table == PreTable.MR_spy_points
               named ==
                   IF Len(hist.words) = 1
                   THEN {n \in {PreTable.MR_most_recent_spy_point} :
                            Live(PreTable, n)}
                   ELSE IF hist.words[2] = <<"*">>
                   THEN {n \in 0..(Len(table) - 1) : Live(PreTable, n)}
                   ELSE {n \in {IndexOf} : Live(PreTable, n)}
           IN  /\ (named # {} /\ \A n \in named :
                                    table[n + 1].spy_enabled = flag)
                    => /\ hist.msg = "none"
                       /\ hist.next = KEEP_INTERACTING
                       /\ globals = PreTable
               /\ (IndexOf >= 0 /\ Live(PreTable, IndexOf))
                    => /\ hist.msg = "none"
                       /\ globals =
                            [PreTable EXCEPT
                                !.MR_spy_points[IndexOf + 1].spy_enabled = flag]

\* disable 0 was run on breakpoint 0 when it was disabled already, with
\* breakpoint 2 enabled: nothing changed
C22_Witness ==
    /\ hist.op = "cmd"
    /\ hist.words = <<W.disable, <<"0">>>>
    /\ Len(PreTable.MR_spy_points) = 3
    /\ ~PreTable.MR_spy_points[1].spy_enabled
    /\ PreTable.MR_spy_points[3].spy_enabled
    /\ globals = PreTable
    /\ hist.msg = "none"

-----------------------------------------------------------------------------
(* break on a specification that matches more than one procedure *)

\* the procedures of the breakpoints that the last step added to the table,
\* in the order of their slots
AddedSpyPoints ==
    [i \in 1..(Len(globals.MR_spy_points) - Len(PreTable.MR_spy_points)) |->
        globals.MR_spy_points[Len(PreTable.MR_spy_points) + i].spy_what]

\* the command of the last step was given the option -c
GivenOpt(c) == \E i \in DOMAIN hist.words : hist.words[i] = Opt(c)

\* the last step ran break on m, which matches m/1 and m/2
BreakOnM ==
    /\ hist.op = "cmd"
    /\ hist.function = "MR_trace_cmd_break"
    /\ Len(hist.words) \in 2..3
    /\ hist.words[Len(hist.words)] = <<"m">>
    /\ Len(hist.words) = 3 => hist.words[2] \in {Opt("A"), Opt("O"), Opt("e")}

\* C29: break on a specification with two matches adds a breakpoint for
\* each match with -A, none with -O, and otherwise what the reply to the
\* question says: both for *, match i for the number i < 2, none for any
\* other reply and at the end of the input; the breakpoints that were
\* there stay as they were, and the handler returns KEEP_INTERACTING.
C29_BreakMatches ==
    BreakOnM =>
        /\ hist.next = KEEP_INTERACTING
        /\ pc = "prompt"
        /\ SubSeq(globals.MR_spy_points, 1, Len(PreTable.MR_spy_points))
                = PreTable.MR_spy_points
        /\ \A i \in 1..Len(globals.MR_spy_points) :
                i > Len(PreTable.MR_spy_points)
                    => globals.MR_spy_points[i].spy_exists
        /\ AddedSpyPoints =
                IF GivenOpt("A") THEN <<"m/1", "m/2">>
                ELSE IF GivenOpt("O") THEN <<>>
                ELSE IF hist.read.line = <<"*">> THEN <<"m/1", "m/2">>
                ELSE IF hist.read.line = <<"0">> THEN <<"m/1">>
                ELSE IF hist.read.line = <<"1">> THEN <<"m/2">>
                ELSE <<>>
        /\ (Len(hist.words) = 3 /\ hist.words[2] \in {Opt("A"), Opt("O")})
                => hist.read = NoRead

\* break -A m had added a breakpoint for each of m/1 and m/2; then break m
\* was run, the question was answered by 1 and a breakpoint on m/2 was
\* added after them
C29_Witness ==
    /\ BreakOnM
    /\ Len(hist.words) = 2
    /\ hist.read.line = <<"1">>
    /\ Len(PreTable.MR_spy_points) = 2
    /\ PreTable.MR_spy_points[1].spy_what = "m/1"
    /\ PreTable.MR_spy_points[2].spy_what = "m/2"
    /\ AddedSpyPoints = <<"m/2">>

-----------------------------------------------------------------------------
(* save, and the file that it writes *)

\* the session after the lines of a saved file have been executed one
\* after the other, as source does it, and whether one of them was
\* answered by a usage message
RECURSIVE Replayed(_, _, _)
Replayed(lines, s, usage) ==
    IF lines = <<>> THEN [s |-> s, usage |-> usage]
    ELSE LET t == MR_trace_debug_cmd(Head(lines), s, event_info, Answer0)
         IN  Replayed(Tail(lines), t, usage \/ t.usage)

\* a session of a debugger that was started afresh
Fresh ==
    [Sess EXCEPT
        !.MR_default_print_level = InitSettings.MR_default_print_level,
        !.MR_scroll_control = InitSettings.MR_scroll_control,
        !.MR_scroll_limit = InitSettings.MR_scroll_limit,
        !.MR_echo_commands = InitSettings.MR_echo_commands,
        !.globals = InitGlobals]

SettingsOf(s) ==
    [MR_default_print_level |-> s.MR_default_print_level,
     MR_scroll_control |-> s.MR_scroll_control,
     MR_scroll_limit |-> s.MR_scroll_limit,
     MR_echo_commands |-> s.MR_echo_commands,
     MR_context_position |-> s.globals.MR_context_position,
     MR_print_goal_paths |-> s.globals.MR_print_goal_paths,
     MR_default_breakpoint_scope |-> s.globals.MR_default_breakpoint_scope]

\* the last step ran save and the file was written
Saved ==
    /\ hist.op = "cmd"
    /\ hist.function = "MR_trace_cmd_save"
    /\ hist.saved # <<>>

\* C23: the lines that save writes are executed without a usage message
\* and give a fresh session the print level, echo, scroll control, page
\* size, context position, goal path printing and default breakpoint scope
\* that the session had when save ran.
C23_SaveRestores ==
    Saved =>
        LET r == Replayed(hist.saved, Fresh, FALSE)
        IN  /\ ~r.usage
            /\ SettingsOf(r.s) = SettingsOf(Sess)

-----------------------------------------------------------------------------
(* MR_fatal_error in the command handlers *)

FatalMessages ==
    {"cannot find current filename", "invalid MR_context_position",
     "invalid MR_default_breakpoint_scope", "save cmd: invalid default scope"}

\* C26: no command makes a handler call MR_fatal_error, which ends the
\* process: neither break on a line number, nor context, scope, save or
\* retry.
C26_NoFatalError ==
    ~(pc = "crashed" /\ hist.op = "cmd" /\ hist.msg \in FatalMessages)

-----------------------------------------------------------------------------
(* The line `retry -o' between the retry that queued it and its execution *)

\* the host calls the engine for an event that is only to be reported when
\* the decision it was given asks for the events on the way to be checked
\* or printed, and not otherwise
MR_trace_real_reports(c) == c.MR_trace_must_check

RetryLine == Line(<<W.retry, Opt("o")>>)

\* retry was answered by finish first or fail first and has returned to
\* the host
RetryQueued ==
    /\ hist.op = "cmd"
    /\ hist.function = "MR_trace_cmd_retry"
    /\ hist.result \in {"MR_RETRY_OK_FINISH_FIRST", "MR_RETRY_OK_FAIL_FIRST"}
    /\ pc = "host"

\* the next event that the host notifies after RetryQueued
NextNotified ==
    /\ RetryQueued
    /\ event_info' # event_info

\* C30 as it is stated, for any notification that follows: the line is
\* still at the front of the queue when the command loop starts
RetryLineKept ==
    /\ pc' = "prompt"
    /\ QueueLines(Q') = QueueLines(Q)
    /\ Head(QueueLines(Q')) = RetryLine

\* C30: after a finish first or fail first retry the next notification of
\* a host that reports events only when it was asked to check them is
\* interactive, its command loop starts with `retry -o' at the front of
\* the queue as retry left it, the first command read there is that line,
\* taken from the queue, and it is executed by the retry handler: no
\* --more-- prompt, no quit confirmation and no question of break reads
\* it in between.
C30_Step ==
    /\ (NextNotified /\ (event_info'.interactive \/ MR_trace_real_reports(cmd)))
            => (event_info'.interactive /\ RetryLineKept)
    /\ (/\ pc = "prompt"
        /\ hist.op = "notify"
        /\ QueueLines(Q) # <<>>
        /\ Head(QueueLines(Q)) = RetryLine)
            => /\ pc' = "cmd"
               /\ gc'.cmd_chars = RetryLine
               /\ hist'.read.from = "queue"
               /\ QueueLines(Q') = Tail(QueueLines(Q))
               /\ mdb_in' = mdb_in
    /\ (/\ pc = "cmd"
        /\ hist.op = "get_command"
        /\ hist.read.from = "queue"
        /\ hist.read.line = RetryLine)
            => /\ hist'.op = "cmd"
               /\ hist'.function = "MR_trace_cmd_retry"
               /\ ~hist'.usage

C30_AnyHost == [][NextNotified => RetryLineKept]_vars

-----------------------------------------------------------------------------
(* The movement commands that depend on the port *)

\* the last step ran the handler named, which found its words in order
RanWell(function) ==
    /\ hist.op = "cmd"
    /\ hist.function = function
    /\ ~hist.usage

\* the last step reported a no-op: the loop goes on with the kind of the
\* decision as it was
NoOp ==
    /\ hist.msg = "This command is a no-op from this port"
    /\ hist.next = KEEP_INTERACTING
    /\ pc = "prompt"
    /\ cmd.MR_trace_cmd = hist.pre.cmd.MR_trace_cmd

\* the last step returned a decision of this kind to the host
Decided(kind) ==
    /\ hist.next = STOP_INTERACTING
    /\ pc = "host"
    /\ cmd.MR_trace_cmd = kind

\* C32: forward returns RESUME_FORWARD at FAIL, REDO and EXCEPTION ports,
\* return returns RETURN at EXIT ports, exception returns its decision at
\* every port but EXCEPTION, and retry with level 0 calls MR_trace_retry at
\* every port but CALL; at the other ports each of them says that it is a
\* no-op from this port and the loop goes on.
C32_PortCommands ==
    LET port == event_info.MR_trace_port IN
    /\ RanWell("MR_trace_cmd_forward") =>
            IF port \in {MR_PORT_FAIL, MR_PORT_REDO, MR_PORT_EXCEPTION}
            THEN Decided("MR_CMD_RESUME_FORWARD") ELSE NoOp
    /\ RanWell("MR_trace_cmd_return") =>
            IF port = MR_PORT_EXIT THEN Decided("MR_CMD_RETURN") ELSE NoOp
    /\ RanWell("MR_trace_cmd_exception") =>
            IF port # MR_PORT_EXCEPTION THEN Decided("MR_CMD_EXCP") ELSE NoOp
    /\ (RanWell("MR_trace_cmd_retry")
            /\ hist.words \in {<<W.retry>>, <<W.retry, <<"0">>>>}) =>
            IF port # MR_PORT_CALL THEN hist.retry /\ hist.msg # "This command is a no-op from this port"
            ELSE NoOp /\ ~hist.retry

\* forward was run at a CALL port and was a no-op while the decision of the
\* notification before, a step, was in place
C32_Witness ==
    /\ RanWell("MR_trace_cmd_forward")
    /\ event_info.MR_trace_port = MR_PORT_CALL
    /\ event_info.MR_trace_event_number = 2
    /\ NoOp

-----------------------------------------------------------------------------
(* The decision that a movement command hands back.                        *)

\* the command loop has returned to the host after the command in hist
Returned == hist.op = "cmd" /\ pc = "host"

\* the strictness the words name: the last of -S and -N, else the default
StrictNamed(ws, dflt) ==
    LET named == {i \in 2..Len(ws) : ws[i] \in {Opt("S"), Opt("N")}}
        last == CHOOSE i \in named : \A j \in named : j <= i
    IN  IF named = {} THEN dflt ELSE ws[last] = Opt("S")

\* what the command in hist alone says the decision is
ExpectedDecision ==
    LET ws == hist.words
        dl == hist.pre.settings.MR_default_print_level
    IN  IF hist.function = "MR_trace_cmd_retry"
        THEN IF hist.result = "MR_RETRY_OK_DIRECT"
             THEN [strict |-> FALSE, level |-> dl]
             ELSE [strict |-> TRUE, level |-> MR_PRINT_LEVEL_NONE]
        ELSE IF hist.function = "MR_trace_cmd_continue"
        THEN [strict |-> StrictNamed(ws, FALSE),
              level |-> LevelNamed(ws, IF StrictNamed(ws, FALSE)
                                       THEN MR_PRINT_LEVEL_NONE
                                       ELSE MR_PRINT_LEVEL_SOME)]
        ELSE [strict |-> StrictNamed(ws, hist.function # "MR_trace_cmd_step"),
              level |-> LevelNamed(ws, dl)]

\* C31: the strictness and the print level of the decision handed back to
\* the host are those that the final movement command names by its defaults
\* and options and by the default print level; the record left by the
\* earlier commands and by the previous notification has no part in them,
\* and the print level is one of NONE, SOME and ALL.
C31_FinalCommandDecides ==
    Returned =>
        /\ cmd.MR_trace_strict = ExpectedDecision.strict
        /\ cmd.MR_trace_print_level = ExpectedDecision.level
        /\ cmd.MR_trace_print_level \in
             {MR_PRINT_LEVEL_NONE, MR_PRINT_LEVEL_SOME, MR_PRINT_LEVEL_ALL}

\* goto 5 has returned a strict decision of print level SOME on the second
\* event, from the record that next -N -n left non-strict with print level
\* NONE
C31_Witness ==
    /\ Returned
    /\ hist.words = <<W.goto, <<"5">>>>
    /\ event_info.MR_trace_event_number = 2
    /\ hist.pre.cmd.MR_trace_cmd = "MR_CMD_NEXT"
    /\ ~hist.pre.cmd.MR_trace_strict
    /\ hist.pre.cmd.MR_trace_print_level = MR_PRINT_LEVEL_NONE
    /\ cmd.MR_trace_strict
    /\ cmd.MR_trace_print_level = MR_PRINT_LEVEL_SOME

\* C33: a GOTO decision has a stop event after the current event, and goto
\* to an event that is not after the current one is refused.
C33_GotoAhead ==
    /\ (Returned /\ cmd.MR_trace_cmd = "MR_CMD_GOTO")
        => cmd.MR_trace_stop_event > event_info.MR_trace_event_number
    /\ (/\ hist.op = "cmd"
        /\ hist.function = "MR_trace_cmd_goto"
        /\ Len(hist.words) = 2
        /\ MR_trace_is_natural_number(hist.words[2])
        /\ NaturalValue(hist.words[2]) <= event_info.MR_trace_event_number)
        => /\ hist.next = KEEP_INTERACTING
           /\ hist.msg = "The debugger cannot go to a past event"
           /\ pc = "prompt"

\* C34: a NEXT, FINISH or FAIL decision has a stop depth from 0 to the call
\* depth of the current event.
C34_StopDepthInRange ==
    (Returned /\ cmd.MR_trace_cmd \in {"MR_CMD_NEXT", "MR_CMD_FINISH",
                                       "MR_CMD_FAIL"})
        => /\ 0 <= cmd.MR_trace_stop_depth
           /\ cmd.MR_trace_stop_depth <= event_info.MR_call_depth

\* C36: when the command loop returns to the host the decision must be
\* checked exactly if it is not strict or prints something, and the pager
\* has counted no line.
C36_ReturnedDecision ==
    Returned =>
        /\ cmd.MR_trace_must_check <=>
              (~cmd.MR_trace_strict
               \/ cmd.MR_trace_print_level # MR_PRINT_LEVEL_NONE)
        /\ MR_scroll_next = 0

\* C36 amended: when the command loop returns to the host the decision must
\* be checked exactly if it is not strict, or prints something, or has the
\* integrity flag that a build with MR_TRACE_CHECK_INTEGRITY gives it; the
\* pager has counted no line.
C36_ReturnedDecisionOfBuild ==
    Returned =>
        /\ cmd.MR_trace_must_check <=>
              \/ ~cmd.MR_trace_strict
              \/ cmd.MR_trace_print_level # MR_PRINT_LEVEL_NONE
              \/ cmd.MR_trace_check_integrity = "MR_TRUE"
        /\ MR_scroll_next = 0

\* retry, with the callee to be finished first, has returned a strict
\* decision that prints nothing and must be checked, since step -i of the
\* event before had asked for the integrity check
C36_Witness ==
    /\ Returned
    /\ hist.function = "MR_trace_cmd_retry"
    /\ cmd.MR_trace_cmd = "MR_CMD_FINISH"
    /\ cmd.MR_trace_strict
    /\ cmd.MR_trace_print_level = MR_PRINT_LEVEL_NONE
    /\ cmd.MR_trace_check_integrity = "MR_TRUE"
    /\ cmd.MR_trace_must_check
    /\ MR_scroll_next = 0

\* continue -S, given at the prompt that the reply q to the pager opened,
\* has returned a decision that need not be checked
C36_WitnessUnchecked ==
    /\ Returned
    /\ hist.words = <<W.continue, Opt("S")>>
    /\ hist.pre.cmd.MR_trace_must_check
    /\ ~cmd.MR_trace_must_check
    /\ ~event_info.interactive
    /\ MR_scroll_next = 0

-----------------------------------------------------------------------------
(* The ignore policy and the condition of a breakpoint.                    *)

\* the breakpoints that the words of the ignore command in hist name
IgnoreNamed ==
    LET table == PreTable.MR_spy_points IN
    IF Len(hist.words) = 1
    THEN {n \in {PreTable.MR_most_recent_spy_point} : Live(PreTable, n)}
    ELSE IF hist.words[2] = <<"*">>
    THEN {n \in 0..(Len(table) - 1) : Live(PreTable, n)}
    ELSE {n \in {NaturalValue(hist.words[2])} : Live(PreTable, n)}

\* C35: ignore sets the policy on every breakpoint that its words name, all
\* that exist for *, and leaves every other slot of the table as it was.
C35_IgnoreNamed ==
    (/\ hist.op = "cmd"
     /\ hist.function = "MR_trace_cmd_ignore"
     /\ Len(hist.words) <= 2
     /\ Len(hist.words) = 2 =>
            \/ hist.words[2] = <<"*">>
            \/ MR_trace_is_natural_number(hist.words[2]))
    => /\ pc = "prompt"
       /\ hist.next = KEEP_INTERACTING
       /\ globals =
            [PreTable EXCEPT !.MR_spy_points =
                [i \in DOMAIN PreTable.MR_spy_points |->
                    IF (i - 1) \in IgnoreNamed
                    THEN [PreTable.MR_spy_points[i] EXCEPT
                            !.spy_ignore_count = 1]
                    ELSE PreTable.MR_spy_points[i]]]

\* the breakpoint that the words of the condition command in hist name
CondTarget ==
    IF /\ Len(hist.words) >= 3
       /\ hist.words[2] = Opt("n")
       /\ MR_trace_is_natural_number(hist.words[3])
    THEN NaturalValue(hist.words[3])
    ELSE PreTable.MR_most_recent_spy_point

\* C37: a condition command that ends with a message leaves the table of
\* breakpoints, and with it the condition of its target, as it was; one
\* that ends without a message has changed the condition of its target and
\* nothing else.
C37_ConditionKept ==
    (hist.op = "cmd" /\ hist.function = "MR_trace_cmd_condition")
    => /\ hist.next = KEEP_INTERACTING
       /\ hist.msg # "none" => globals = PreTable
       /\ hist.msg = "none" =>
            /\ Live(PreTable, CondTarget)
            /\ \E c \in {globals.MR_spy_points[CondTarget + 1].spy_cond} :
                /\ c # <<>>
                /\ c[1].cond_what_string = <<"X">>
                /\ c[1].cond_term_string = hist.words[Len(hist.words)]
                /\ globals =
                     [PreTable EXCEPT
                        !.MR_spy_points[CondTarget + 1].spy_cond = c]

\* the term of a new condition for breakpoint 0 did not parse, and
\* breakpoint 0 still tests X = 1
C37_Witness ==
    /\ hist.op = "cmd"
    /\ hist.function = "MR_trace_cmd_condition"
    /\ hist.msg = "syntax error in term"
    /\ CondTarget = 0
    /\ Live(globals, 0)
    /\ globals.MR_spy_points[1].spy_cond # <<>>
    /\ globals.MR_spy_points[1].spy_cond[1].cond_term_string = <<"1">>
    /\ globals.MR_spy_points[1].spy_cond[1].cond_test = "MR_SPY_TEST_EQUAL"

-----------------------------------------------------------------------------
(* The shape of the session queue.                                         *)

\* the node at which the links from n end, or UninitNode when they leave
\* the heap or do not end
RECURSIVE LastFrom(_, _, _)
LastFrom(h, n, fuel) ==
    IF n \notin DOMAIN h \/ fuel = 0 THEN UninitNode
    ELSE IF h[n].MR_line_next = NullNode THEN n
    ELSE LastFrom(h, h[n].MR_line_next, fuel - 1)

\* C38: the head of the queue is null exactly when the tail is, the tail is
\* the node at which the links from the head end, and each operation has
\* done to the linked lines what it is for: a removal gives the first of
\* them and leaves the rest, an insertion at the head or of a file puts the
\* new lines before them, an insertion at the tail after them.
C38_QueueShape ==
    /\ (MR_line_head = NullNode) <=> (MR_line_tail = NullNode)
    /\ MR_line_head # NullNode =>
            /\ LastFrom(heap, MR_line_head, Cardinality(DOMAIN heap))
                    = MR_line_tail
            /\ Len(QueueLines(Q)) = Cardinality(DOMAIN heap)
    /\ MR_line_head = NullNode => DOMAIN heap = {}
    /\ hist.op = "MR_trace_getline_queue" =>
            /\ hist.read.before = <<>> =>
                    hist.read.line = NullLine /\ QueueLines(Q) = <<>>
            /\ hist.read.before # <<>> =>
                    /\ hist.read.line = Head(hist.read.before)
                    /\ QueueLines(Q) = Tail(hist.read.before)
    /\ hist.op \in {"MR_insert_line_at_head",
                    "MR_trace_source_from_open_file"} =>
            QueueLines(Q) = hist.sourced.lines \o hist.sourced.before
    /\ hist.op = "MR_insert_line_at_tail" =>
            QueueLines(Q) = hist.sourced.before \o hist.sourced.lines

\* the one line left in the queue has been removed: both pointers are null
\* again and no node is left
C38_Witness ==
    /\ hist.op = "MR_trace_getline_queue"
    /\ hist.read.before = <<W.zz>>
    /\ hist.read.line = W.zz
    /\ MR_line_head = NullNode
    /\ MR_line_tail = NullNode
    /\ heap = <<>>

-----------------------------------------------------------------------------
(* The three settings that are enumerations.                               *)

\* the value that the word w names: for context and printlevel, or for scope
ValueNamed(w, level) ==
    CASE w = W.none /\ hist.function = "MR_trace_cmd_context"
            -> "MR_CONTEXT_NOWHERE"
      [] w = W.before -> "MR_CONTEXT_BEFORE"
      [] w = W.after -> "MR_CONTEXT_AFTER"
      [] w = W.prevline -> "MR_CONTEXT_PREVLINE"
      [] w = W.nextline -> "MR_CONTEXT_NEXTLINE"
      [] w = W.interface -> "MR_SPY_INTERFACE"
      [] w = W.entry -> "MR_SPY_ENTRY"
      [] w = W.all /\ ~level -> "MR_SPY_ALL"
      [] w = W.all /\ level -> MR_PRINT_LEVEL_ALL
      [] w = W.some -> MR_PRINT_LEVEL_SOME
      [] w = W.none /\ hist.function # "MR_trace_cmd_context"
            -> MR_PRINT_LEVEL_NONE

\* C39: the context position, the default scope and the default print
\* level have one of their defined values in every state; context, scope
\* and printlevel with a known argument set their own setting to the value
\* named, and with any other argument, or too many, they print their usage
\* and leave every setting as it was.
C39_Enumerations ==
    /\ globals.MR_context_position \in
            {"MR_CONTEXT_NOWHERE", "MR_CONTEXT_BEFORE", "MR_CONTEXT_AFTER",
             "MR_CONTEXT_PREVLINE", "MR_CONTEXT_NEXTLINE"}
    /\ globals.MR_default_breakpoint_scope \in
            {"MR_SPY_ALL", "MR_SPY_INTERFACE", "MR_SPY_ENTRY"}
    /\ MR_default_print_level \in
            {MR_PRINT_LEVEL_NONE, MR_PRINT_LEVEL_SOME, MR_PRINT_LEVEL_ALL}
    /\ (/\ hist.op = "cmd"
        /\ hist.function \in {"MR_trace_cmd_context", "MR_trace_cmd_scope",
                              "MR_trace_cmd_printlevel"})
        => LET known ==
                 IF hist.function = "MR_trace_cmd_context"
                 THEN {W.none, W.before, W.after, W.prevline, W.nextline}
                 ELSE IF hist.function = "MR_trace_cmd_scope"
                 THEN {W.all, W.interface, W.entry}
                 ELSE {W.none, W.some, W.all}
               sets == Len(hist.words) = 2 /\ hist.words[2] \in known
           IN  /\ hist.next = KEEP_INTERACTING
               /\ pc = "prompt"
               /\ hist.usage <=> (Len(hist.words) > 1 /\ ~sets)
               /\ ~sets => Settings = hist.pre.settings
               /\ sets =>
                    Settings =
                        IF hist.function = "MR_trace_cmd_context"
                        THEN [hist.pre.settings EXCEPT
                                !.globals.MR_context_position =
                                    ValueNamed(hist.words[2], TRUE)]
                        ELSE IF hist.function = "MR_trace_cmd_scope"
                        THEN [hist.pre.settings EXCEPT
                                !.globals.MR_default_breakpoint_scope =
                                    ValueNamed(hist.words[2], FALSE)]
                        ELSE [hist.pre.settings EXCEPT
                                !.MR_default_print_level =
                                    ValueNamed(hist.words[2], TRUE)]

\* context all, an argument that scope and printlevel know and context
\* does not, has left the position at prevline, where the command before
\* had put it
C39_Witness ==
    /\ hist.op = "cmd"
    /\ hist.words = <<W.context, W.all>>
    /\ hist.usage
    /\ globals.MR_context_position = "MR_CONTEXT_PREVLINE"
    /\ hist.pre.settings.globals.MR_context_position = "MR_CONTEXT_PREVLINE"

-----------------------------------------------------------------------------
(* The phase of the tabling of I/O.                                        *)

\* the step is the table_io command with one of the two arguments
TableIoGiven(args) ==
    /\ pc = "cmd"
    /\ hist'.op = "cmd"
    /\ hist'.function = "MR_trace_cmd_table_io"
    /\ Len(hist'.words) = 2
    /\ hist'.words[2] \in args

\* C40: the phase is set to BEFORE by the initialisation on first use and
\* after that it changes only from BEFORE to DURING, by table_io start, and
\* from DURING to AFTER, by table_io stop, both only while the tabling is
\* allowed, and those commands do change it then; from AFTER it does not
\* change.
C40_Step ==
    LET phase == globals.MR_io_tabling_phase
        allowed == globals.MR_io_tabling_allowed
    IN  /\ globals'.MR_io_tabling_phase # phase =>
            \/ /\ ~MR_trace_internal_initialized
               /\ MR_trace_internal_initialized'
               /\ phase = "MR_IO_TABLING_UNINIT"
               /\ globals'.MR_io_tabling_phase = "MR_IO_TABLING_BEFORE"
            \/ /\ TableIoGiven({W.start, W.begin})
               /\ allowed
               /\ phase = "MR_IO_TABLING_BEFORE"
               /\ globals'.MR_io_tabling_phase = "MR_IO_TABLING_DURING"
            \/ /\ TableIoGiven({W.stop, W.end})
               /\ allowed
               /\ phase = "MR_IO_TABLING_DURING"
               /\ globals'.MR_io_tabling_phase = "MR_IO_TABLING_AFTER"
        /\ (TableIoGiven({W.start, W.begin}) /\ allowed
            /\ phase = "MR_IO_TABLING_BEFORE")
            => globals'.MR_io_tabling_phase = "MR_IO_TABLING_DURING"
        /\ (TableIoGiven({W.stop, W.end}) /\ allowed
            /\ phase = "MR_IO_TABLING_DURING")
            => globals'.MR_io_tabling_phase = "MR_IO_TABLING_AFTER"
        /\ pc = "cmd" => MR_trace_internal_initialized

C40_PhaseForward == [][C40_Step]_vars

\* table_io start has been given after the tabling was stopped, and the
\* phase is still AFTER
C40_Witness ==
    /\ hist.op = "cmd"
    /\ hist.words = <<W.table_io, W.start>>
    /\ hist.msg = "I/O tabling has already stopped"
    /\ globals.MR_io_tabling_allowed
    /\ globals.MR_io_tabling_phase = "MR_IO_TABLING_AFTER"
    /\ hist.pre.settings.globals.MR_io_tabling_phase = "MR_IO_TABLING_AFTER"

====
